---- MODULE Spec2Model ----
(***************************************************************************)
(* State-machine model of the client-side stream engine, src/pulse/stream.c *)
(*                                                                         *)
(* Every handler of stream.c is a function from "worlds" to "worlds": a    *)
(* world is the record of the program state (the streams, the context, the *)
(* operations, the reply dispatcher) plus what the handler emitted (user   *)
(* callbacks fired, payloads sent).  An action evaluates one API call,     *)
(* one reply or one server event on the current world and commits the      *)
(* resulting world, so nested calls (pa_stream_set_state -> stream_unlink, *)
(* request_auto_timing_update -> pa_stream_update_timing_info) are part of *)
(* the action that makes them.                                             *)
(***************************************************************************)
EXTENDS Integers, Sequences, FiniteSets, TLC

VARIABLES
    stream,       \* [Streams -> pa_stream]        the stream objects
    context,      \* pa_context                    the one context they belong to
    operations,   \* [tag -> pa_operation]         operations still referenced
    pdispatch,    \* [tag -> reply registration]   replies the dispatcher waits for
    server,       \* what the server has been sent (the wire, in issue order)
    last,         \* the last call/reply/event and what it returned and emitted
    app,          \* what the application has been handed (the last time per
                  \* stream) and what it has written since each latency query
    cfg           \* the scenario: which inputs the environment draws from

vars == <<stream, context, operations, pdispatch, server, last, app, cfg>>

\* what a step that takes no argument records as its argument
NoArg == [none |-> TRUE]

(***************************************************************************)
(* Bounds of the model                                                     *)
(***************************************************************************)
\* tags (commands) a behaviour of the lifecycle specification may use
LifeMaxTag == 3
\* tags a behaviour of the single-stream operation specification may use
OpsMaxTag == 2
\* tags a behaviour of the timing specification may use
TimingMaxTag == 6
\* writes a behaviour of the timing specification may issue
TimingMaxWrites == 3
\* writes a behaviour of the operation specification may issue
OpsMaxWrites == 2
\* memory blocks of recorded data the server sends in the operation specification
OpsMaxBlocks == 1
\* tags a behaviour of the clock specification may use
TimeMaxTag == 2
\* writes a behaviour of the clock specification may issue
TimeMaxWrites == 1
\* tags a behaviour of the creation specification may use
CreateMaxTag == 2
\* writes a behaviour of the creation specification may issue
CreateMaxWrites == 1
\* N, the number of slots of the write-index correction ring
PA_MAX_WRITE_INDEX_CORRECTIONS == 3
\* requested_bytes is a uint32_t and wraps at 2^32; the model's counter has
\* the same modular arithmetic at this (smaller) modulus
RequestedBytesMod == 16

Streams == {1, 2}
Channels == {0, 1}

(***************************************************************************)
(* Program constants                                                       *)
(***************************************************************************)
NULL == 0
PA_USEC_PER_MSEC == 1000

PA_STREAM_UNCONNECTED == "UNCONNECTED"
PA_STREAM_CREATING == "CREATING"
PA_STREAM_READY == "READY"
PA_STREAM_FAILED == "FAILED"
PA_STREAM_TERMINATED == "TERMINATED"

PA_STREAM_NODIRECTION == "NODIRECTION"
PA_STREAM_PLAYBACK == "PLAYBACK"
PA_STREAM_RECORD == "RECORD"
PA_STREAM_UPLOAD == "UPLOAD"

PA_SEEK_RELATIVE == "RELATIVE"
PA_SEEK_ABSOLUTE == "ABSOLUTE"
PA_SEEK_RELATIVE_ON_READ == "RELATIVE_ON_READ"

PA_COMMAND_REPLY == "REPLY"
PA_COMMAND_ERROR == "ERROR"

PA_OK == "OK"
PA_ERR_BADSTATE == "BADSTATE"
PA_ERR_INVALID == "INVALID"
PA_ERR_NOTSUPPORTED == "NOTSUPPORTED"
PA_ERR_NODATA == "NODATA"
PA_ERR_INTERNAL == "INTERNAL"
PA_ERR_KILLED == "KILLED"
PA_ERR_SERVER == "SERVERERROR"

CallbackNames ==
    {"read", "write", "state", "overflow", "underflow",
     "latency_update", "moved", "suspended", "started"}

Max(a, b) == IF a >= b THEN a ELSE b
Min(a, b) == IF a <= b THEN a ELSE b

(***************************************************************************)
(* Collaborators that live outside stream.c                                *)
(***************************************************************************)
\* pa_frame_size / pa_bytes_to_usec / pa_usec_to_bytes of pulse/sample.c
pa_bytes_to_usec(length, ss) ==
    ((length \div ss.frame_size) * PA_USEC_PER_MSEC) \div (ss.rate \div 1000)

pa_usec_to_bytes(usec, ss) ==
    (((usec \div PA_USEC_PER_MSEC) * ss.rate) \div 1000) * ss.frame_size

\* pa_context_set_error: a NULL context is tolerated, the code is returned
pa_context_set_error(w, s, error) ==
    IF w.stream[s].context THEN [w EXCEPT !.context.error = error] ELSE w

\* pa_operation_cancel -> operation_unlink: the operation leaves the
\* context and forgets its stream and its callback
pa_operation_cancel(o) ==
    [o EXCEPT !.context = FALSE, !.stream = NULL, !.callback = FALSE]

\* pa_operation_new: linked into the context, bound to the stream (target
\* remembers the stream the operation was created for)
pa_operation_new(w, s, cb, kind, private) ==
    [w EXCEPT !.operations = @ @@ (w.context.ctag :>
        [context |-> TRUE, stream |-> s, callback |-> cb,
         kind |-> kind, private |-> private, target |-> s])]

\* pa_operation_done + pa_operation_unref at the end of a reply handler
pa_operation_done(w, tag) ==
    [w EXCEPT !.operations = [t \in (DOMAIN @) \ {tag} |-> @[t]]]

\* pa_tagstruct_command + pa_pstream_send_tagstruct +
\* pa_pdispatch_register_reply: the command takes the next tag and the
\* handler waits for the reply carrying it
send_command(w, handler, udkind, ud) ==
    [w EXCEPT !.context.ctag = @ + 1,
              !.pdispatch = @ @@ (w.context.ctag :>
                  [callback |-> handler,
                   userdata |-> [kind |-> udkind, id |-> ud]])]

\* pa_pdispatch_unregister_reply(pd, userdata): drops the registrations
\* whose userdata is this very pointer
pa_pdispatch_unregister_reply(pd, s) ==
    LET keep == {t \in DOMAIN pd :
                    ~(pd[t].userdata.kind = "stream" /\ pd[t].userdata.id = s)}
    IN [t \in keep |-> pd[t]]

\* the dispatcher removes a registration when it runs its handler
pdispatch_run(w, tag) ==
    [w EXCEPT !.pdispatch = [t \in (DOMAIN @) \ {tag} |-> @[t]]]

\* a user callback is invoked: recorded, in order, in the world
Fire(w, cb, s, arg, userdata) ==
    [w EXCEPT !.fired = Append(@,
        [cb |-> cb, s |-> s, arg |-> arg, userdata |-> userdata])]

(***************************************************************************)
(* Construction                                                            *)
(***************************************************************************)
Ring == 0 .. (PA_MAX_WRITE_INDEX_CORRECTIONS - 1)

NoCorrection ==
    [valid |-> FALSE, tag |-> 0, value |-> 0, absolute |-> FALSE, corrupt |-> FALSE]

TimingInfoZero ==
    [sink_usec |-> 0, source_usec |-> 0, transport_usec |-> 0,
     playing |-> FALSE, since_underrun |-> 0,
     synchronized_clocks |-> FALSE, timestamp |-> 0,
     write_index |-> 0, read_index |-> 0,
     write_index_corrupt |-> FALSE, read_index_corrupt |-> FALSE]

BufferAttrZero ==
    [maxlength |-> 0, tlength |-> 0, prebuf |-> 0, minreq |-> 0, fragsize |-> 0]

reset_callbacks(st) ==
    [st EXCEPT !.callback = [n \in CallbackNames |-> FALSE],
               !.userdata = [n \in CallbackNames |-> NULL]]

pa_stream_new_with_proplist(ss) ==
    [context |-> TRUE,
     \* one reference for the caller, one for the context's list of streams
     refcnt |-> 2,
     app_ref |-> TRUE,
     freed |-> FALSE,
     freed_linked |-> FALSE,
     direction |-> PA_STREAM_NODIRECTION,
     state |-> PA_STREAM_UNCONNECTED,
     flags |-> {},
     sample_spec |-> ss,
     channel |-> 0,
     channel_valid |-> FALSE,
     requested_bytes |-> 0,
     buffer_attr |-> [BufferAttrZero EXCEPT
                         !.tlength = pa_usec_to_bytes(250 * PA_USEC_PER_MSEC, ss)],
     device_index |-> NULL,
     suspended |-> FALSE,
     peek_memchunk |-> NULL,
     record_memblockq |-> <<>>,
     has_record_memblockq |-> FALSE,
     corked |-> FALSE,
     timing_info |-> TimingInfoZero,
     timing_info_valid |-> FALSE,
     previous_time |-> 0,
     read_index_not_before |-> 0,
     write_index_not_before |-> 0,
     write_index_corrections |-> [i \in Ring |-> NoCorrection],
     current_write_index_correction |-> 0,
     auto_timing_update_event |-> FALSE,
     auto_timing_update_requested |-> FALSE,
     callback |-> [n \in CallbackNames |-> FALSE],
     userdata |-> [n \in CallbackNames |-> NULL],
     smoother |-> "none"]

(***************************************************************************)
(* Worlds                                                                  *)
(***************************************************************************)
World ==
    [stream |-> stream, context |-> context, operations |-> operations,
     pdispatch |-> pdispatch, server |-> server,
     fired |-> <<>>, payloads |-> <<>>, ret |-> PA_OK, value |-> 0]

\* PA_CHECK_VALIDITY*: the context error is set and the call returns
CheckFailed(w, s, error) ==
    [pa_context_set_error(w, s, error) EXCEPT !.ret = error]

Return(w, r) == [w EXCEPT !.ret = r]

\* a successful call that also yields a number (a size, a length, a time)
ReturnValue(w, v) == [w EXCEPT !.ret = PA_OK, !.value = v]

\* pa_assert(cond): the program aborts when cond is false, which the context
\* records
pa_assert(w, cond) ==
    IF cond THEN w ELSE [w EXCEPT !.context.assertion_failed = TRUE]

\* pa_context_handle_error on a well-formed ERROR (or TIMEOUT) message:
\* the context error is set, the call returns 0
pa_context_handle_error(w) ==
    [w EXCEPT !.context.error = PA_ERR_SERVER]

(***************************************************************************)
(* Lifecycle                                                               *)
(***************************************************************************)
\* the channel table stream_unlink clears
UnlinkTable(direction) ==
    IF direction = PA_STREAM_PLAYBACK THEN "playback_streams" ELSE "record_streams"

\* pa_stream_unref as stream_unlink calls it on the list's reference
UnrefInUnlink(st) ==
    LET st1 == [st EXCEPT !.refcnt = @ - 1]
    IN IF st1.refcnt <= 0
       THEN [st1 EXCEPT !.freed = TRUE, !.freed_linked = TRUE]
       ELSE st1

\* variant: an unlink that leaves the stream's operations alone
stream_unlink_keeping_operations(w, s) ==
    IF ~w.stream[s].context THEN w
    ELSE
      LET st == w.stream[s]
          pd == pa_pdispatch_unregister_reply(w.pdispatch, s)
          ctx == [w.context EXCEPT !.streams = @ \ {s}]
          st1 == reset_callbacks([UnrefInUnlink(st) EXCEPT
                                     !.context = FALSE, !.channel = 0,
                                     !.channel_valid = FALSE])
      IN [w EXCEPT !.pdispatch = pd, !.context = ctx, !.stream[s] = st1]

stream_unlink(w, s) ==
    IF ~w.stream[s].context THEN w
    ELSE
      LET st == w.stream[s]
          ops == [t \in DOMAIN w.operations |->
                    IF w.operations[t].context /\ w.operations[t].stream = s
                    THEN pa_operation_cancel(w.operations[t])
                    ELSE w.operations[t]]
          pd == pa_pdispatch_unregister_reply(w.pdispatch, s)
          tbl == UnlinkTable(st.direction)
          ctx1 == IF st.channel_valid
                  THEN [w.context EXCEPT ![tbl][st.channel] = NULL]
                  ELSE w.context
          ctx2 == [ctx1 EXCEPT
                      !.streams = @ \ {s},
                      !.time_events[s] =
                          IF st.auto_timing_update_event THEN "freed" ELSE @]
          st1 == IF st.channel_valid
                 THEN [st EXCEPT !.channel = 0, !.channel_valid = FALSE]
                 ELSE st
          \* the list's reference is dropped; were it the last one, stream_free
          \* would be entered here, with the stream still linked
          st2 == UnrefInUnlink(st1)
          st3 == reset_callbacks([st2 EXCEPT !.context = FALSE])
      IN [w EXCEPT !.operations = ops, !.pdispatch = pd,
                   !.context = ctx2, !.stream[s] = st3]

stream_free(w, s) ==
    LET w1 == stream_unlink(w, s)
    IN [w1 EXCEPT !.stream[s].freed = TRUE]

pa_stream_unref(w, s) ==
    LET w1 == [w EXCEPT !.stream[s].refcnt = @ - 1]
    IN IF w1.stream[s].refcnt <= 0 THEN stream_free(w1, s) ELSE w1

pa_stream_ref(w, s) == [w EXCEPT !.stream[s].refcnt = @ + 1]

\* the application's state callback: one that releases the application's
\* reference once the stream has failed or terminated, or one that does not
StateCallback(w, s) ==
    IF /\ cfg.unref_in_callback
       /\ w.stream[s].app_ref
       /\ w.stream[s].state \in {PA_STREAM_FAILED, PA_STREAM_TERMINATED}
    THEN pa_stream_unref([w EXCEPT !.stream[s].app_ref = FALSE], s)
    ELSE w

\* variant: a transition that takes no reference of its own
pa_stream_set_state_unreferenced(w, s, st) ==
    IF w.stream[s].state = st THEN w
    ELSE
      LET w1 == [w EXCEPT !.stream[s].state = st]
          w2 == IF w1.stream[s].callback["state"]
                THEN StateCallback(Fire(w1, "state", s, 0, w1.stream[s].userdata["state"]), s)
                ELSE w1
      IN IF st \in {PA_STREAM_FAILED, PA_STREAM_TERMINATED}
         THEN stream_unlink(w2, s)
         ELSE w2

pa_stream_set_state(w, s, st) ==
    IF w.stream[s].state = st THEN w
    ELSE
      LET w0 == pa_stream_ref(w, s)
          w1 == [w0 EXCEPT !.stream[s].state = st]
          w2 == IF w1.stream[s].callback["state"]
                THEN StateCallback(Fire(w1, "state", s, 0, w1.stream[s].userdata["state"]), s)
                ELSE w1
          w3 == IF st \in {PA_STREAM_FAILED, PA_STREAM_TERMINATED}
                THEN stream_unlink(w2, s)
                ELSE w2
      IN pa_stream_unref(w3, s)

(***************************************************************************)
(* Latency queries                                                         *)
(***************************************************************************)
\* variant: a query that takes the next slot without looking at it
pa_stream_update_timing_info_unchecked(w, s, cb) ==
    LET st == w.stream[s]
        cidx == (st.current_write_index_correction + 1) % PA_MAX_WRITE_INDEX_CORRECTIONS
        tag == w.context.ctag
    IN IF st.state # PA_STREAM_READY THEN CheckFailed(w, s, PA_ERR_BADSTATE)
       ELSE IF st.direction = PA_STREAM_UPLOAD THEN CheckFailed(w, s, PA_ERR_BADSTATE)
       ELSE
         LET w1 == pa_operation_new(w, s, cb, "update_timing_info", 0)
             w2 == send_command(w1, "stream_get_timing_info_callback", "operation", tag)
             w3 == [w2 EXCEPT !.server.latency = @ @@ (tag :> w.server.write_index[s])]
             w4 == IF st.direction = PA_STREAM_PLAYBACK
                   THEN [w3 EXCEPT
                           !.stream[s].current_write_index_correction = cidx,
                           !.stream[s].write_index_corrections[cidx] =
                               [valid |-> TRUE, absolute |-> FALSE, corrupt |-> FALSE,
                                tag |-> tag, value |-> 0]]
                   ELSE w3
         IN Return(w4, PA_OK)

pa_stream_update_timing_info(w, s, cb) ==
    LET st == w.stream[s]
        cidx == (st.current_write_index_correction + 1) % PA_MAX_WRITE_INDEX_CORRECTIONS
        tag == w.context.ctag
    IN IF st.state # PA_STREAM_READY THEN CheckFailed(w, s, PA_ERR_BADSTATE)
       ELSE IF st.direction = PA_STREAM_UPLOAD THEN CheckFailed(w, s, PA_ERR_BADSTATE)
       ELSE IF st.direction = PA_STREAM_PLAYBACK /\ st.write_index_corrections[cidx].valid
            THEN CheckFailed(w, s, PA_ERR_INTERNAL)
       ELSE
         LET w1 == pa_operation_new(w, s, cb, "update_timing_info", 0)
             w2 == send_command(w1, "stream_get_timing_info_callback", "operation", tag)
             \* the server answers with its write index at the moment it reads the query
             w3 == [w2 EXCEPT !.server.latency = @ @@ (tag :> w.server.write_index[s])]
             w4 == IF st.direction = PA_STREAM_PLAYBACK
                   THEN [w3 EXCEPT
                           !.stream[s].current_write_index_correction = cidx,
                           !.stream[s].write_index_corrections[cidx] =
                               [valid |-> TRUE, absolute |-> FALSE, corrupt |-> FALSE,
                                tag |-> tag, value |-> 0]]
                   ELSE w3
         IN Return(w4, PA_OK)

request_auto_timing_update(w, s, force) ==
    IF "AUTO_TIMING_UPDATE" \notin w.stream[s].flags THEN w
    ELSE
      LET st == w.stream[s]
          w1 == IF st.state = PA_STREAM_READY /\ (force \/ ~st.auto_timing_update_requested)
                THEN LET u == pa_stream_update_timing_info(w, s, FALSE)
                     IN IF u.ret = PA_OK
                        THEN [u EXCEPT !.stream[s].auto_timing_update_requested = TRUE]
                        ELSE u
                ELSE w
      IN IF w1.stream[s].auto_timing_update_event
         THEN [w1 EXCEPT !.context.time_events[s] = "armed"]
         ELSE w1

\* variant: a barrier for the replies to come that leaves the snapshot at
\* hand usable
invalidate_indexes_keeping_snapshot(w, s, r, wr) ==
    IF w.stream[s].state # PA_STREAM_READY THEN w
    ELSE
      LET st == w.stream[s]
          st1 == IF wr
                 THEN [st EXCEPT !.write_index_not_before = w.context.ctag]
                 ELSE st
          st2 == IF r
                 THEN [st1 EXCEPT !.read_index_not_before = w.context.ctag]
                 ELSE st1
      IN request_auto_timing_update([w EXCEPT !.stream[s] = st2], s, TRUE)

invalidate_indexes(w, s, r, wr) ==
    IF w.stream[s].state # PA_STREAM_READY THEN w
    ELSE
      LET st == w.stream[s]
          st1 == IF wr
                 THEN [st EXCEPT
                         !.write_index_not_before = w.context.ctag,
                         !.timing_info.write_index_corrupt =
                             IF st.timing_info_valid THEN TRUE ELSE @]
                 ELSE st
          st2 == IF r
                 THEN [st1 EXCEPT
                         !.read_index_not_before = w.context.ctag,
                         !.timing_info.read_index_corrupt =
                             IF st.timing_info_valid THEN TRUE ELSE @]
                 ELSE st1
      IN request_auto_timing_update([w EXCEPT !.stream[s] = st2], s, TRUE)

auto_timing_update_callback(w, s) ==
    pa_stream_unref(
        request_auto_timing_update(
            pa_stream_ref([w EXCEPT !.context.time_events[s] = "expired"], s), s, FALSE), s)

(***************************************************************************)
(* Connecting                                                              *)
(***************************************************************************)
\* C's !x on an unsigned field
LogicalNot(x) == IF x = 0 THEN 1 ELSE 0

automatic_buffer_attr(version, attr, ss) ==
    IF version >= 13 THEN attr
    ELSE
      LET a1 == IF LogicalNot(attr.maxlength) <= 0
                THEN [attr EXCEPT !.maxlength = 4 * 1024 * 1024] ELSE attr
          a2 == IF LogicalNot(a1.tlength) <= 0
                THEN [a1 EXCEPT !.tlength = pa_usec_to_bytes(250 * PA_USEC_PER_MSEC, ss)]
                ELSE a1
          a3 == IF LogicalNot(a2.minreq) <= 0
                THEN [a2 EXCEPT !.minreq = a2.tlength \div 5] ELSE a2
          a4 == IF LogicalNot(a3.prebuf) # 0
                THEN [a3 EXCEPT !.prebuf = a3.tlength] ELSE a3
      IN IF LogicalNot(a4.fragsize) # 0
         THEN [a4 EXCEPT !.fragsize = a4.tlength] ELSE a4

\* variant: a connect that accepts a stream in any state
AnyStateOk(st) == TRUE

\* the state a connect call requires
CreateStreamStateOk(st) == st.state = PA_STREAM_UNCONNECTED

\* attr is <<>> for a NULL pointer, <<a>> for a caller-supplied pa_buffer_attr
create_stream(w, direction, s, attr, flags) ==
    LET st == w.stream[s]
        version == w.context.version
    IN IF ~CreateStreamStateOk(st) THEN CheckFailed(w, s, PA_ERR_BADSTATE)
       ELSE IF ~(version >= 12 \/ "VARIABLE_RATE" \notin flags)
            THEN CheckFailed(w, s, PA_ERR_NOTSUPPORTED)
       ELSE IF ~(version >= 13 \/ "PEAK_DETECT" \notin flags)
            THEN CheckFailed(w, s, PA_ERR_NOTSUPPORTED)
       ELSE IF ~(direction = PA_STREAM_PLAYBACK \/ "START_MUTED" \notin flags)
            THEN CheckFailed(w, s, PA_ERR_INVALID)
       ELSE IF ~(direction = PA_STREAM_RECORD \/ "PEAK_DETECT" \notin flags)
            THEN CheckFailed(w, s, PA_ERR_INVALID)
       ELSE
         LET battr == IF attr # <<>> THEN attr[1] ELSE st.buffer_attr
             st1 == [st EXCEPT
                       !.direction = direction,
                       !.flags = flags,
                       !.corked = "START_CORKED" \in flags,
                       !.buffer_attr = automatic_buffer_attr(version, battr, st.sample_spec),
                       !.smoother = IF "INTERPOLATE_TIMING" \in flags THEN "paused" ELSE @]
             w1 == send_command(pa_stream_ref([w EXCEPT !.stream[s] = st1], s),
                                "pa_create_stream_callback", "stream", s)
         IN Return(pa_stream_unref(pa_stream_set_state(w1, s, PA_STREAM_CREATING), s), PA_OK)

pa_stream_connect_playback(w, s, attr, flags) ==
    create_stream(w, PA_STREAM_PLAYBACK, s, attr, flags)

pa_stream_connect_record(w, s, attr, flags) ==
    create_stream(w, PA_STREAM_RECORD, s, attr, flags)

\* pa_stream_connect_upload of pulse/scache.c: the third way into CREATING,
\* answered by the same pa_create_stream_callback
pa_stream_connect_upload(w, s) ==
    IF w.stream[s].state # PA_STREAM_UNCONNECTED THEN CheckFailed(w, s, PA_ERR_BADSTATE)
    ELSE
      LET w1 == send_command([w EXCEPT !.stream[s].direction = PA_STREAM_UPLOAD],
                             "pa_create_stream_callback", "stream", s)
      IN Return(pa_stream_set_state(w1, s, PA_STREAM_CREATING), PA_OK)

\* variant: completion that never asks the application for data
create_stream_complete_silent(w, s) ==
    pa_stream_set_state(w, s, PA_STREAM_READY)

create_stream_complete(w, s) ==
    LET w0 == pa_assert(w, w.stream[s].state = PA_STREAM_CREATING)
        w1 == pa_stream_set_state(w0, s, PA_STREAM_READY)
        st == w1.stream[s]
        w2 == IF st.requested_bytes > 0 /\ st.callback["write"]
              THEN Fire(w1, "write", s, st.requested_bytes, st.userdata["write"])
              ELSE w1
    IN IF "AUTO_TIMING_UPDATE" \in st.flags
       THEN request_auto_timing_update(
                [w2 EXCEPT !.stream[s].auto_timing_update_event = TRUE,
                           !.context.time_events[s] = "armed"], s, TRUE)
       ELSE w2

\* the channel table a created stream is entered in
CreateTable(direction) ==
    IF direction = PA_STREAM_RECORD THEN "record_streams" ELSE "playback_streams"

\* m is the (well-formed) message: command, and for a REPLY the channel, the
\* stream index, the initial credit, the negotiated buffer attributes, the
\* device, the suspended flag and the configured latency
pa_create_stream_callback(w0, s, m) ==
    LET w == pa_assert(w0, w0.stream[s].state = PA_STREAM_CREATING) IN
    IF m.command # PA_COMMAND_REPLY
    THEN pa_stream_unref(
             pa_stream_set_state(pa_context_handle_error(pa_stream_ref(w, s)),
                                 s, PA_STREAM_FAILED), s)
    ELSE
      LET st == w.stream[s]
          version == w.context.version
          dir == st.direction
          ba == st.buffer_attr
          ba1 == IF version >= 9 /\ dir = PA_STREAM_PLAYBACK
                 THEN [ba EXCEPT !.maxlength = m.buffer_attr.maxlength,
                                 !.tlength = m.buffer_attr.tlength,
                                 !.prebuf = m.buffer_attr.prebuf,
                                 !.minreq = m.buffer_attr.minreq]
                 ELSE IF version >= 9 /\ dir = PA_STREAM_RECORD
                 THEN [ba EXCEPT !.maxlength = m.buffer_attr.maxlength,
                                 !.fragsize = m.buffer_attr.fragsize]
                 ELSE ba
          full == version >= 12 /\ dir # PA_STREAM_UPLOAD
          st1 == [st EXCEPT
                    !.channel = m.channel,
                    !.requested_bytes = IF dir # PA_STREAM_RECORD THEN m.requested_bytes ELSE @,
                    !.buffer_attr = ba1,
                    !.device_index = IF full THEN m.device_index ELSE @,
                    !.suspended = IF full THEN m.suspended ELSE @,
                    !.has_record_memblockq = IF dir = PA_STREAM_RECORD THEN TRUE ELSE @,
                    !.channel_valid = TRUE]
          w1 == [w EXCEPT !.stream[s] = st1,
                          !.context[CreateTable(dir)][m.channel] = s]
      IN pa_stream_unref(create_stream_complete(pa_stream_ref(w1, s), s), s)

(***************************************************************************)
(* Disconnecting, being killed                                             *)
(***************************************************************************)
pa_stream_disconnect(w, s) ==
    IF ~w.stream[s].channel_valid THEN CheckFailed(w, s, PA_ERR_BADSTATE)
    ELSE Return(pa_stream_unref(
                    send_command(pa_stream_ref(w, s),
                                 "pa_stream_disconnect_callback", "stream", s), s), PA_OK)

\* variant: a disconnect reply that is never read
disconnect_always_terminated(w, s, command) ==
    pa_stream_set_state(w, s, PA_STREAM_TERMINATED)

pa_stream_disconnect_callback(w, s, command) ==
    LET w0 == pa_stream_ref(w, s)
        w1 == IF command # PA_COMMAND_REPLY
              THEN pa_stream_set_state(pa_context_handle_error(w0), s, PA_STREAM_FAILED)
              ELSE pa_stream_set_state(w0, s, PA_STREAM_TERMINATED)
    IN pa_stream_unref(w1, s)

\* the channel table a KILLED event is looked up in
KilledTable(command) ==
    IF command = "PLAYBACK_STREAM_KILLED" THEN "playback_streams" ELSE "record_streams"

\* s->state == PA_STREAM_READY as an event handler reads it from the pointer
\* it found in the channel table; the state field of a stream that has been
\* freed reads as whatever the released memory holds
ReadsReady(w, s) ==
    IF w.stream[s].freed THEN cfg.freed_reads_ready
    ELSE w.stream[s].state = PA_STREAM_READY

pa_command_stream_killed(w, command, channel) ==
    LET s == w.context[KilledTable(command)][channel]
    IN IF s = NULL THEN w
       ELSE IF ~ReadsReady(w, s) THEN w
       ELSE pa_stream_set_state([w EXCEPT !.context.error = PA_ERR_KILLED],
                                s, PA_STREAM_FAILED)

(***************************************************************************)
(* Callback registration: the nine pa_stream_set_*_callback functions      *)
(***************************************************************************)
pa_stream_set_callback(w, s, which, cb, userdata) ==
    IF w.stream[s].state \in {PA_STREAM_TERMINATED, PA_STREAM_FAILED} THEN w
    ELSE [w EXCEPT !.stream[s].callback[which] = cb,
                   !.stream[s].userdata[which] = userdata]

(***************************************************************************)
(* Write pipeline                                                          *)
(***************************************************************************)
\* variant: a loop that cuts the caller's buffer into pool-sized pieces also
\* when it wraps it as a user block
RECURSIVE WriteChunksAlwaysCut(_, _, _, _, _, _)
WriteChunksAlwaysCut(t_data, t_length, t_offset, t_seek, user, block_size_max) ==
    IF t_length <= 0 THEN <<>>
    ELSE
      LET len == Min(t_length, block_size_max)
      IN <<[data |-> t_data, length |-> len, offset |-> t_offset, seek |-> t_seek,
            user |-> user]>>
         \o WriteChunksAlwaysCut(t_data + len, t_length - len, 0, PA_SEEK_RELATIVE,
                                 user, block_size_max)

\* the payloads of the while loop of pa_stream_write; t_data is the position
\* in the caller's buffer the chunk starts at, user tells a block that wraps
\* the caller's buffer from a pool block the bytes were copied into
RECURSIVE WriteChunks(_, _, _, _, _, _)
WriteChunks(t_data, t_length, t_offset, t_seek, user, block_size_max) ==
    IF t_length <= 0 THEN <<>>
    ELSE
      LET len == IF user THEN t_length ELSE Min(t_length, block_size_max)
      IN <<[data |-> t_data, length |-> len, offset |-> t_offset, seek |-> t_seek,
            user |-> user]>>
         \o WriteChunks(t_data + len, t_length - len, 0, PA_SEEK_RELATIVE, user,
                        block_size_max)

\* variant: a credit that is not clamped at zero
CreditUnclamped(requested_bytes, length) == requested_bytes - length

\* the credit left after a write of length bytes
CreditAfterWrite(requested_bytes, length) ==
    IF length < requested_bytes THEN requested_bytes - length ELSE 0

\* the current correction slot after a write
CorrectionAfterWrite(c, length, offset, seek) ==
    IF ~c.valid THEN c
    ELSE IF seek = PA_SEEK_ABSOLUTE
         THEN [c EXCEPT !.corrupt = FALSE, !.absolute = TRUE, !.value = offset + length]
    ELSE IF seek = PA_SEEK_RELATIVE
         THEN IF ~c.corrupt THEN [c EXCEPT !.value = @ + offset + length] ELSE c
    ELSE [c EXCEPT !.corrupt = TRUE]

\* the snapshot's write index after a write
TimingInfoAfterWrite(i, length, offset, seek) ==
    IF seek = PA_SEEK_ABSOLUTE
    THEN [i EXCEPT !.write_index_corrupt = FALSE, !.write_index = offset + length]
    ELSE IF seek = PA_SEEK_RELATIVE
         THEN IF ~i.write_index_corrupt THEN [i EXCEPT !.write_index = @ + offset + length] ELSE i
    ELSE [i EXCEPT !.write_index_corrupt = TRUE]

\* the server's write index once it has consumed the write (the read index
\* of the server-side queue stands at server.read_index)
ServerAfterWrite(srv, s, length, offset, seek) ==
    [srv EXCEPT !.write_index[s] =
        IF seek = PA_SEEK_ABSOLUTE THEN offset + length
        ELSE IF seek = PA_SEEK_RELATIVE_ON_READ THEN srv.read_index[s] + offset + length
        ELSE @ + offset + length]

\* variant: the caller's buffer wrapped when the transport has shared memory
UserBlockWithShm(free_cb, shm) == free_cb /\ shm

\* the loop wraps the caller's buffer as a user block instead of copying it
UserBlock(free_cb, shm) == free_cb /\ ~shm

\* pa_stream_write calls free_cb itself once the loop is done
FreeAfterLoop(free_cb, shm) == free_cb /\ shm

pa_stream_write(w, s, length, free_cb, offset, seek) ==
    LET st == w.stream[s]
        shm == w.context.shm
    IN IF st.state # PA_STREAM_READY THEN CheckFailed(w, s, PA_ERR_BADSTATE)
       ELSE IF st.direction \notin {PA_STREAM_PLAYBACK, PA_STREAM_UPLOAD}
            THEN CheckFailed(w, s, PA_ERR_BADSTATE)
       ELSE IF st.direction # PA_STREAM_PLAYBACK /\ ~(seek = PA_SEEK_RELATIVE /\ offset = 0)
            THEN CheckFailed(w, s, PA_ERR_INVALID)
       ELSE IF length <= 0 THEN Return(w, PA_OK)
       ELSE
         LET chunks == WriteChunks(0, length, offset, seek, UserBlock(free_cb, shm),
                                   w.context.block_size_max)
             w1 == [w EXCEPT !.payloads = @ \o chunks,
                             !.server = ServerAfterWrite(@, s, length, offset, seek)]
             w2 == IF FreeAfterLoop(free_cb, shm)
                   THEN Fire(w1, "free_cb", s, length, NULL) ELSE w1
             cur == st.current_write_index_correction
             st1 == [st EXCEPT !.requested_bytes = CreditAfterWrite(@, length)]
             st2 == IF st.direction = PA_STREAM_PLAYBACK
                    THEN [st1 EXCEPT
                            !.write_index_corrections[cur] =
                                CorrectionAfterWrite(@, length, offset, seek),
                            !.timing_info =
                                IF st.timing_info_valid
                                THEN TimingInfoAfterWrite(@, length, offset, seek)
                                ELSE @]
                    ELSE st1
             w3 == [w2 EXCEPT !.stream[s] = st2]
             w4 == IF st.direction = PA_STREAM_PLAYBACK /\
                      (~st2.timing_info_valid \/ st2.timing_info.write_index_corrupt)
                   THEN request_auto_timing_update(w3, s, TRUE)
                   ELSE w3
         IN Return(w4, PA_OK)

(***************************************************************************)
(* Read pipeline                                                           *)
(***************************************************************************)
RECURSIVE SeqSum(_)
SeqSum(q) == IF q = <<>> THEN 0 ELSE Head(q) + SeqSum(Tail(q))

\* pa_memblockq_get_length of the record queue (a sequence of chunk lengths)
pa_memblockq_get_length(q) == SeqSum(q)

\* variant: a peek that takes the chunk off the queue
pa_stream_peek_consuming(w, s) ==
    LET st == w.stream[s]
    IN IF st.state # PA_STREAM_READY THEN CheckFailed(w, s, PA_ERR_BADSTATE)
       ELSE IF st.direction # PA_STREAM_RECORD THEN CheckFailed(w, s, PA_ERR_BADSTATE)
       ELSE IF st.peek_memchunk = NULL /\ st.record_memblockq = <<>>
            THEN ReturnValue(w, 0)
       ELSE IF st.peek_memchunk = NULL
            THEN ReturnValue([w EXCEPT !.stream[s].peek_memchunk = Head(st.record_memblockq),
                                       !.stream[s].record_memblockq = Tail(@)],
                             Head(st.record_memblockq))
       ELSE ReturnValue(w, st.peek_memchunk)

pa_stream_peek(w, s) ==
    LET st == w.stream[s]
    IN IF st.state # PA_STREAM_READY THEN CheckFailed(w, s, PA_ERR_BADSTATE)
       ELSE IF st.direction # PA_STREAM_RECORD THEN CheckFailed(w, s, PA_ERR_BADSTATE)
       ELSE IF st.peek_memchunk = NULL /\ st.record_memblockq = <<>>
            THEN ReturnValue(w, 0)
       ELSE IF st.peek_memchunk = NULL
            THEN ReturnValue([w EXCEPT !.stream[s].peek_memchunk = Head(st.record_memblockq)],
                             Head(st.record_memblockq))
       ELSE ReturnValue(w, st.peek_memchunk)

\* variant: a drop that advances the read index whatever the snapshot says
pa_stream_drop_always_advancing(w, s) ==
    LET st == w.stream[s]
    IN IF st.state # PA_STREAM_READY THEN CheckFailed(w, s, PA_ERR_BADSTATE)
       ELSE IF st.direction # PA_STREAM_RECORD THEN CheckFailed(w, s, PA_ERR_BADSTATE)
       ELSE IF st.peek_memchunk = NULL THEN CheckFailed(w, s, PA_ERR_BADSTATE)
       ELSE Return([w EXCEPT
                !.stream[s].record_memblockq = Tail(@),
                !.stream[s].timing_info.read_index = @ + st.peek_memchunk,
                !.stream[s].peek_memchunk = NULL], PA_OK)

pa_stream_drop(w, s) ==
    LET st == w.stream[s]
    IN IF st.state # PA_STREAM_READY THEN CheckFailed(w, s, PA_ERR_BADSTATE)
       ELSE IF st.direction # PA_STREAM_RECORD THEN CheckFailed(w, s, PA_ERR_BADSTATE)
       ELSE IF st.peek_memchunk = NULL THEN CheckFailed(w, s, PA_ERR_BADSTATE)
       ELSE Return([w EXCEPT
                !.stream[s].record_memblockq = Tail(@),
                !.stream[s].timing_info.read_index =
                    IF st.timing_info_valid /\ ~st.timing_info.read_index_corrupt
                    THEN @ + st.peek_memchunk ELSE @,
                !.stream[s].peek_memchunk = NULL], PA_OK)

pa_stream_writable_size(w, s) ==
    LET st == w.stream[s]
    IN IF st.state # PA_STREAM_READY THEN CheckFailed(w, s, PA_ERR_BADSTATE)
       ELSE IF st.direction = PA_STREAM_RECORD THEN CheckFailed(w, s, PA_ERR_BADSTATE)
       ELSE ReturnValue(w, st.requested_bytes)

pa_stream_readable_size(w, s) ==
    LET st == w.stream[s]
    IN IF st.state # PA_STREAM_READY THEN CheckFailed(w, s, PA_ERR_BADSTATE)
       ELSE IF st.direction # PA_STREAM_RECORD THEN CheckFailed(w, s, PA_ERR_BADSTATE)
       ELSE ReturnValue(w, pa_memblockq_get_length(st.record_memblockq))

(***************************************************************************)
(* Control operations                                                      *)
(***************************************************************************)
pa_stream_drain(w, s, cb) ==
    LET st == w.stream[s]
    IN IF st.state # PA_STREAM_READY THEN CheckFailed(w, s, PA_ERR_BADSTATE)
       ELSE IF st.direction # PA_STREAM_PLAYBACK THEN CheckFailed(w, s, PA_ERR_BADSTATE)
       ELSE Return(send_command(pa_operation_new(w, s, cb, "drain", 0),
                                "pa_stream_simple_ack_callback", "operation",
                                w.context.ctag), PA_OK)

\* variant: a cork that does not look at the stream state
pa_stream_cork_unchecked(w, s, b, cb) ==
    LET w1 == [w EXCEPT !.stream[s].corked = b]
    IN Return(send_command(pa_operation_new(w1, s, cb, "cork", 0),
                           "pa_stream_simple_ack_callback", "operation",
                           w.context.ctag), PA_OK)

pa_stream_cork(w, s, b, cb) ==
    LET st == w.stream[s]
    IN IF st.state # PA_STREAM_READY THEN CheckFailed(w, s, PA_ERR_BADSTATE)
       ELSE IF st.direction = PA_STREAM_UPLOAD THEN CheckFailed(w, s, PA_ERR_BADSTATE)
       ELSE
         LET w1 == [w EXCEPT !.stream[s].corked = b]
             w2 == send_command(pa_operation_new(w1, s, cb, "cork", 0),
                                "pa_stream_simple_ack_callback", "operation",
                                w.context.ctag)
             w3 == IF st.smoother # "none" /\ (st.suspended \/ b)
                   THEN [w2 EXCEPT !.stream[s].smoother = "paused"]
                   ELSE w2
             w4 == IF st.direction = PA_STREAM_PLAYBACK
                   THEN invalidate_indexes(w3, s, TRUE, FALSE)
                   ELSE w3
         IN Return(w4, PA_OK)

stream_send_simple_command(w, s, command, cb) ==
    IF w.stream[s].state # PA_STREAM_READY THEN CheckFailed(w, s, PA_ERR_BADSTATE)
    ELSE Return(send_command(pa_operation_new(w, s, cb, command, 0),
                             "pa_stream_simple_ack_callback", "operation",
                             w.context.ctag), PA_OK)

pa_stream_flush(w, s, cb) ==
    LET st == w.stream[s]
    IN IF st.state # PA_STREAM_READY THEN CheckFailed(w, s, PA_ERR_BADSTATE)
       ELSE IF st.direction = PA_STREAM_UPLOAD THEN CheckFailed(w, s, PA_ERR_BADSTATE)
       ELSE
         LET w1 == stream_send_simple_command(w, s, "flush", cb)
             cur == st.current_write_index_correction
         IN IF w1.ret # PA_OK THEN w1
            ELSE IF st.direction = PA_STREAM_PLAYBACK
            THEN
              LET w2 == [w1 EXCEPT
                           !.stream[s].write_index_corrections[cur].corrupt =
                               IF st.write_index_corrections[cur].valid THEN TRUE ELSE @,
                           !.stream[s].timing_info.write_index_corrupt =
                               IF st.timing_info_valid THEN TRUE ELSE @]
                  w3 == IF st.buffer_attr.prebuf > 0
                        THEN invalidate_indexes(w2, s, TRUE, FALSE)
                        ELSE request_auto_timing_update(w2, s, TRUE)
                  w4 == IF st.smoother # "none" /\ st.buffer_attr.prebuf > 0
                        THEN [w3 EXCEPT !.stream[s].smoother = "paused"]
                        ELSE w3
              IN Return(w4, PA_OK)
            ELSE Return(invalidate_indexes(w1, s, FALSE, TRUE), PA_OK)

pa_stream_prebuf(w, s, cb) ==
    LET st == w.stream[s]
    IN IF st.state # PA_STREAM_READY THEN CheckFailed(w, s, PA_ERR_BADSTATE)
       ELSE IF st.direction # PA_STREAM_PLAYBACK THEN CheckFailed(w, s, PA_ERR_BADSTATE)
       ELSE IF ~(st.buffer_attr.prebuf > 0) THEN CheckFailed(w, s, PA_ERR_BADSTATE)
       ELSE
         LET w1 == stream_send_simple_command(w, s, "prebuf", cb)
         IN IF w1.ret # PA_OK THEN w1
            ELSE Return(invalidate_indexes(w1, s, TRUE, FALSE), PA_OK)

pa_stream_trigger(w, s, cb) ==
    LET st == w.stream[s]
    IN IF st.state # PA_STREAM_READY THEN CheckFailed(w, s, PA_ERR_BADSTATE)
       ELSE IF st.direction # PA_STREAM_PLAYBACK THEN CheckFailed(w, s, PA_ERR_BADSTATE)
       ELSE IF ~(st.buffer_attr.prebuf > 0) THEN CheckFailed(w, s, PA_ERR_BADSTATE)
       ELSE
         LET w1 == stream_send_simple_command(w, s, "trigger", cb)
         IN IF w1.ret # PA_OK THEN w1
            ELSE Return(invalidate_indexes(w1, s, TRUE, FALSE), PA_OK)

pa_stream_proplist_update(w, s, cb) ==
    LET st == w.stream[s]
    IN IF st.state # PA_STREAM_READY THEN CheckFailed(w, s, PA_ERR_BADSTATE)
       ELSE IF st.direction = PA_STREAM_UPLOAD THEN CheckFailed(w, s, PA_ERR_BADSTATE)
       ELSE IF ~(w.context.version >= 13) THEN CheckFailed(w, s, PA_ERR_NOTSUPPORTED)
       ELSE Return(send_command(pa_operation_new(w, s, cb, "proplist_update", 0),
                                "pa_stream_simple_ack_callback", "operation",
                                w.context.ctag), PA_OK)

pa_stream_proplist_remove(w, s, cb) ==
    LET st == w.stream[s]
    IN IF st.state # PA_STREAM_READY THEN CheckFailed(w, s, PA_ERR_BADSTATE)
       ELSE IF st.direction = PA_STREAM_UPLOAD THEN CheckFailed(w, s, PA_ERR_BADSTATE)
       ELSE IF ~(w.context.version >= 13) THEN CheckFailed(w, s, PA_ERR_NOTSUPPORTED)
       ELSE Return(send_command(pa_operation_new(w, s, cb, "proplist_remove", 0),
                                "pa_stream_simple_ack_callback", "operation",
                                w.context.ctag), PA_OK)

pa_stream_set_name(w, s, cb) ==
    LET st == w.stream[s]
    IN IF st.state # PA_STREAM_READY THEN CheckFailed(w, s, PA_ERR_BADSTATE)
       ELSE IF st.direction = PA_STREAM_UPLOAD THEN CheckFailed(w, s, PA_ERR_BADSTATE)
       ELSE IF w.context.version >= 13 THEN pa_stream_proplist_update(w, s, cb)
       ELSE Return(send_command(pa_operation_new(w, s, cb, "set_name", 0),
                                "pa_stream_simple_ack_callback", "operation",
                                w.context.ctag), PA_OK)

pa_stream_set_buffer_attr(w, s, cb) ==
    LET st == w.stream[s]
    IN IF st.state # PA_STREAM_READY THEN CheckFailed(w, s, PA_ERR_BADSTATE)
       ELSE IF st.direction = PA_STREAM_UPLOAD THEN CheckFailed(w, s, PA_ERR_BADSTATE)
       ELSE IF ~(w.context.version >= 12) THEN CheckFailed(w, s, PA_ERR_NOTSUPPORTED)
       ELSE Return(send_command(pa_operation_new(w, s, cb, "set_buffer_attr", 0),
                                "stream_set_buffer_attr_callback", "operation",
                                w.context.ctag), PA_OK)

pa_stream_update_sample_rate(w, s, rate, cb) ==
    LET st == w.stream[s]
    IN IF st.state # PA_STREAM_READY THEN CheckFailed(w, s, PA_ERR_BADSTATE)
       ELSE IF st.direction = PA_STREAM_UPLOAD THEN CheckFailed(w, s, PA_ERR_BADSTATE)
       ELSE IF "VARIABLE_RATE" \notin st.flags THEN CheckFailed(w, s, PA_ERR_BADSTATE)
       ELSE IF ~(w.context.version >= 12) THEN CheckFailed(w, s, PA_ERR_NOTSUPPORTED)
       ELSE Return(send_command(pa_operation_new(w, s, cb, "update_sample_rate", rate),
                                "stream_update_sample_rate_callback", "operation",
                                w.context.ctag), PA_OK)

(***************************************************************************)
(* Time                                                                    *)
(***************************************************************************)
\* the assertions calc_time opens with
calc_time_assertions(w, s) ==
    LET st == w.stream[s]
    IN pa_assert(w, /\ st.refcnt >= 1
                    /\ st.state = PA_STREAM_READY
                    /\ st.direction # PA_STREAM_UPLOAD
                    /\ st.timing_info_valid
                    /\ (st.direction # PA_STREAM_PLAYBACK \/ ~st.timing_info.read_index_corrupt)
                    /\ (st.direction # PA_STREAM_RECORD \/ ~st.timing_info.write_index_corrupt))

calc_time(st, ignore_transport) ==
    LET i == st.timing_info
        index == IF st.direction = PA_STREAM_PLAYBACK THEN i.read_index ELSE i.write_index
        usec0 == pa_bytes_to_usec(IF index < 0 THEN 0 ELSE index, st.sample_spec)
        usec1 == usec0 + (IF ignore_transport THEN 0 ELSE i.transport_usec)
                       + (IF st.direction = PA_STREAM_RECORD THEN i.source_usec ELSE 0)
    IN IF ~st.corked /\ ~st.suspended
       THEN IF i.sink_usec >= usec1 THEN 0 ELSE usec1 - i.sink_usec
       ELSE usec0

\* variant: the raw estimate handed out as it is
RawTime(st, usec) == usec

\* what pa_stream_get_time hands out, given the raw estimate
MonotonicTime(st, usec) ==
    IF "NOT_MONOTONOUS" \notin st.flags /\ usec < st.previous_time
    THEN st.previous_time ELSE usec

\* smoothed is what pa_smoother_get answers when the stream has a smoother
pa_stream_get_time(w, s, smoothed) ==
    LET st == w.stream[s]
    IN IF st.state # PA_STREAM_READY THEN CheckFailed(w, s, PA_ERR_BADSTATE)
       ELSE IF st.direction = PA_STREAM_UPLOAD THEN CheckFailed(w, s, PA_ERR_BADSTATE)
       ELSE IF ~st.timing_info_valid THEN CheckFailed(w, s, PA_ERR_NODATA)
       ELSE IF st.direction = PA_STREAM_PLAYBACK /\ st.timing_info.read_index_corrupt
            THEN CheckFailed(w, s, PA_ERR_NODATA)
       ELSE IF st.direction = PA_STREAM_RECORD /\ st.timing_info.write_index_corrupt
            THEN CheckFailed(w, s, PA_ERR_NODATA)
       ELSE
         LET raw == IF st.smoother # "none" THEN smoothed ELSE calc_time(st, FALSE)
             w0 == IF st.smoother # "none" THEN w ELSE calc_time_assertions(w, s)
             usec == MonotonicTime(st, raw)
         IN ReturnValue(
              [w0 EXCEPT !.stream[s].previous_time =
                  IF "NOT_MONOTONOUS" \notin st.flags /\ ~(raw < st.previous_time)
                  THEN raw ELSE @],
              usec)

time_counter_diff(st, a, b) ==
    IF a >= b THEN a - b
    ELSE IF st.direction = PA_STREAM_RECORD THEN -(b - a) ELSE 0

\* variant: a latency that checks no more than pa_stream_get_time does
pa_stream_get_latency_as_time(w, s, smoothed) ==
    LET st == w.stream[s]
        w1 == pa_stream_get_time(w, s, smoothed)
        t == w1.value
        cindex == IF st.direction = PA_STREAM_PLAYBACK
                  THEN st.timing_info.write_index ELSE st.timing_info.read_index
        c == pa_bytes_to_usec(IF cindex < 0 THEN 0 ELSE cindex, st.sample_spec)
    IN IF w1.ret # PA_OK THEN w1
       ELSE IF st.direction = PA_STREAM_PLAYBACK
            THEN ReturnValue(w1, time_counter_diff(st, c, t))
            ELSE ReturnValue(w1, time_counter_diff(st, t, c))

\* the value is the latency, negative when the negative flag is raised
pa_stream_get_latency(w, s, smoothed) ==
    LET st == w.stream[s]
    IN IF st.state # PA_STREAM_READY THEN CheckFailed(w, s, PA_ERR_BADSTATE)
       ELSE IF st.direction = PA_STREAM_UPLOAD THEN CheckFailed(w, s, PA_ERR_BADSTATE)
       ELSE IF ~st.timing_info_valid THEN CheckFailed(w, s, PA_ERR_NODATA)
       ELSE IF st.direction = PA_STREAM_PLAYBACK /\ st.timing_info.write_index_corrupt
            THEN CheckFailed(w, s, PA_ERR_NODATA)
       ELSE IF st.direction = PA_STREAM_RECORD /\ st.timing_info.read_index_corrupt
            THEN CheckFailed(w, s, PA_ERR_NODATA)
       ELSE
         LET w1 == pa_stream_get_time(w, s, smoothed)
             t == w1.value
             cindex == IF st.direction = PA_STREAM_PLAYBACK
                       THEN st.timing_info.write_index ELSE st.timing_info.read_index
             c == pa_bytes_to_usec(IF cindex < 0 THEN 0 ELSE cindex, st.sample_spec)
         IN IF w1.ret # PA_OK THEN w1
            ELSE IF st.direction = PA_STREAM_PLAYBACK
                 THEN ReturnValue(w1, time_counter_diff(st, c, t))
                 ELSE ReturnValue(w1, time_counter_diff(st, t, c))

(***************************************************************************)
(* Reply handlers of the operations                                        *)
(***************************************************************************)
\* variant: an acknowledgement handler that keeps an error to itself
pa_stream_simple_ack_callback_silent(w, tag, command) ==
    LET o == w.operations[tag]
    IN IF ~o.context THEN pa_operation_done(w, tag)
       ELSE
         LET w1 == IF command # PA_COMMAND_REPLY THEN pa_context_handle_error(w) ELSE w
             w2 == IF o.callback /\ command = PA_COMMAND_REPLY
                   THEN Fire(w1, "operation", o.stream, 1, tag) ELSE w1
         IN pa_operation_done(w2, tag)

pa_stream_simple_ack_callback(w, tag, command) ==
    LET o == w.operations[tag]
    IN IF ~o.context THEN pa_operation_done(w, tag)
       ELSE
         LET w1 == IF command # PA_COMMAND_REPLY THEN pa_context_handle_error(w) ELSE w
             success == IF command # PA_COMMAND_REPLY THEN 0 ELSE 1
             w2 == IF o.callback THEN Fire(w1, "operation", o.stream, success, tag) ELSE w1
         IN pa_operation_done(w2, tag)

\* m.buffer_attr: the attributes the server settled on
stream_set_buffer_attr_callback(w, tag, m) ==
    LET o == w.operations[tag]
    IN IF ~o.context THEN pa_operation_done(w, tag)
       ELSE
         LET s == o.stream
             dir == w.stream[s].direction
             w1 == IF m.command # PA_COMMAND_REPLY THEN pa_context_handle_error(w)
                   ELSE IF dir = PA_STREAM_PLAYBACK
                   THEN [w EXCEPT !.stream[s].buffer_attr.maxlength = m.buffer_attr.maxlength,
                                  !.stream[s].buffer_attr.tlength = m.buffer_attr.tlength,
                                  !.stream[s].buffer_attr.prebuf = m.buffer_attr.prebuf,
                                  !.stream[s].buffer_attr.minreq = m.buffer_attr.minreq]
                   ELSE IF dir = PA_STREAM_RECORD
                   THEN [w EXCEPT !.stream[s].buffer_attr.maxlength = m.buffer_attr.maxlength,
                                  !.stream[s].buffer_attr.fragsize = m.buffer_attr.fragsize]
                   ELSE w
             success == IF m.command # PA_COMMAND_REPLY THEN 0 ELSE 1
             w2 == IF o.callback THEN Fire(w1, "operation", s, success, tag) ELSE w1
         IN pa_operation_done(w2, tag)

stream_update_sample_rate_callback(w, tag, command) ==
    LET o == w.operations[tag]
    IN IF ~o.context THEN pa_operation_done(w, tag)
       ELSE
         LET s == o.stream
             w1 == IF command # PA_COMMAND_REPLY THEN pa_context_handle_error(w) ELSE w
             success == IF command # PA_COMMAND_REPLY THEN 0 ELSE 1
             w2 == [w1 EXCEPT !.stream[s].sample_spec.rate = o.private]
             w3 == IF o.callback THEN Fire(w2, "operation", s, success, tag) ELSE w2
         IN pa_operation_done(w3, tag)

(***************************************************************************)
(* The latency reply                                                       *)
(***************************************************************************)
\* the ring index the correction walk starts at
RingWalkStart(current) == current + 1

\* one applicable correction slot applied to the snapshot
ApplyCorrection(i, c) ==
    IF c.corrupt THEN [i EXCEPT !.write_index = 0, !.write_index_corrupt = TRUE]
    ELSE IF c.absolute
         THEN [i EXCEPT !.write_index = c.value, !.write_index_corrupt = FALSE]
    ELSE IF ~i.write_index_corrupt THEN [i EXCEPT !.write_index = @ + c.value]
    ELSE i

\* the for loop over the saved corrections: the entries it does not step
\* over, in the order it meets them, each with the index it was read at; a
\* read at an index outside the array yields whatever lies behind it: oob
RECURSIVE AppliedCorrections(_, _, _, _, _)
AppliedCorrections(corrections, oob, n, j, ctag) ==
    IF ~(n < PA_MAX_WRITE_INDEX_CORRECTIONS) THEN <<>>
    ELSE
      LET c == IF j \in Ring THEN corrections[j] ELSE oob
          next == (j + 1) % PA_MAX_WRITE_INDEX_CORRECTIONS
      IN IF ~c.valid \/ c.tag < ctag
         THEN AppliedCorrections(corrections, oob, n + 1, next, ctag)
         ELSE <<[j |-> j, c |-> c]>>
              \o AppliedCorrections(corrections, oob, n + 1, next, c.tag + 1)

\* "Now fix the write index", for each of them in turn
RECURSIVE ApplyAll(_, _)
ApplyAll(i, applied) ==
    IF applied = <<>> THEN i
    ELSE ApplyAll(ApplyCorrection(i, Head(applied).c), Tail(applied))

\* the snapshot after the for loop
RingWalk(corrections, oob, n, j, ctag, i) ==
    ApplyAll(i, AppliedCorrections(corrections, oob, n, j, ctag))

\* variant: a clearing loop that spares the entry of the reply itself
ClearOlderCorrections(corrections, tag) ==
    [n \in Ring |->
        IF corrections[n].valid /\ corrections[n].tag < tag
        THEN [corrections[n] EXCEPT !.valid = FALSE]
        ELSE corrections[n]]

\* "Clear old correction entries"
ClearOldCorrections(corrections, tag) ==
    [n \in Ring |->
        IF corrections[n].valid /\ corrections[n].tag <= tag
        THEN [corrections[n] EXCEPT !.valid = FALSE]
        ELSE corrections[n]]

\* "Calculcate timestamps": transport_usec, synchronized_clocks, timestamp
Timestamps(dir, local, remote, now) ==
    IF local <= remote /\ remote <= now
    THEN [transport_usec |-> IF dir = PA_STREAM_PLAYBACK THEN remote - local ELSE now - remote,
          synchronized_clocks |-> TRUE, timestamp |-> remote]
    ELSE [transport_usec |-> (IF now >= local THEN now - local ELSE local - now) \div 2,
          synchronized_clocks |-> FALSE,
          timestamp |-> local + (IF now >= local THEN now - local ELSE local - now) \div 2]

\* "Update smoother": paused when the server says the stream is not playing,
\* resumed when it says it is
SmootherAfterReply(smoother, playing) ==
    IF smoother = "none" THEN smoother
    ELSE IF playing THEN "running" ELSE "paused"

\* variant: a reply that ignores the barriers
NeverOutdated(tag, not_before) == FALSE

\* "Invalidate read and write indexes if necessary"
Outdated(tag, not_before) == tag < not_before

\* variant: a reply that leaves the flag as it finds it
AutoRequestedKept(requested) == requested

\* auto_timing_update_requested once a reply has been processed
AutoRequestedAfterReply(requested) == FALSE

\* variant: a reply that takes the server's read index as it comes
ReadIndexUncorrected(i, q) == i

\* "Read index correction": what still sits in the local record queue has
\* not been read by the application
ReadIndexCorrection(i, q) ==
    IF ~i.read_index_corrupt
    THEN [i EXCEPT !.read_index = @ - pa_memblockq_get_length(q)]
    ELSE i

\* m is the (well-formed) message; oob is the memory behind the ring
\* variant: a reply that feeds the smoother whatever the indexes are
SmootherPutsAlways(direction, i) == TRUE

\* the reply feeds the smoother with calc_time only when the index calc_time
\* reads is not corrupt
SmootherPuts(direction, i) ==
    \/ direction = PA_STREAM_PLAYBACK /\ ~i.read_index_corrupt
    \/ direction = PA_STREAM_RECORD /\ ~i.write_index_corrupt

stream_get_timing_info_callback(w, tag, m, oob) ==
    LET o == w.operations[tag]
    IN IF ~o.context \/ o.stream = NULL THEN pa_operation_done(w, tag)
       ELSE
         LET s == o.stream
             st == w.stream[s]
             version == w.context.version
             i0 == [st.timing_info EXCEPT !.write_index_corrupt = FALSE,
                                          !.read_index_corrupt = FALSE]
             ts == Timestamps(st.direction, m.local, m.remote, m.now)
             i1 == [i0 EXCEPT
                      !.sink_usec = m.sink_usec,
                      !.source_usec = m.source_usec,
                      !.write_index = m.write_index,
                      !.read_index = m.read_index,
                      !.playing = m.playing,
                      !.since_underrun =
                          IF version >= 13 /\ st.direction = PA_STREAM_PLAYBACK
                          THEN (IF m.playing THEN m.playing_for ELSE m.underrun_for)
                          ELSE 0,
                      !.transport_usec = ts.transport_usec,
                      !.synchronized_clocks = ts.synchronized_clocks,
                      !.timestamp = ts.timestamp,
                      !.read_index_corrupt = Outdated(tag, st.read_index_not_before),
                      !.write_index_corrupt = Outdated(tag, st.write_index_not_before)]
             i2 == IF st.direction = PA_STREAM_PLAYBACK
                   THEN RingWalk(st.write_index_corrections, oob, 0,
                                 RingWalkStart(st.current_write_index_correction), tag, i1)
                   ELSE i1
             i3 == IF st.direction = PA_STREAM_RECORD
                   THEN ReadIndexCorrection(i2, st.record_memblockq)
                   ELSE i2
             stok == [st EXCEPT
                        !.timing_info_valid = TRUE,
                        !.timing_info = i3,
                        !.write_index_corrections =
                            IF st.direction = PA_STREAM_PLAYBACK
                            THEN ClearOldCorrections(@, tag) ELSE @,
                        !.smoother = SmootherAfterReply(@, m.playing)]
             sterr == [st EXCEPT !.timing_info_valid = FALSE, !.timing_info = i0]
             w1 == IF m.command # PA_COMMAND_REPLY
                   THEN [pa_context_handle_error(w) EXCEPT !.stream[s] = sterr]
                   ELSE IF st.smoother # "none" /\ SmootherPuts(st.direction, i3)
                   THEN calc_time_assertions([w EXCEPT !.stream[s] = stok], s)
                   ELSE [w EXCEPT !.stream[s] = stok]
             w2 == [w1 EXCEPT !.stream[s].auto_timing_update_requested =
                                  AutoRequestedAfterReply(@)]
             w3 == IF w2.stream[s].callback["latency_update"]
                   THEN Fire(w2, "latency_update", s, 0, w2.stream[s].userdata["latency_update"])
                   ELSE w2
             w4 == IF o.callback /\ w3.stream[s].state = PA_STREAM_READY
                   THEN Fire(w3, "operation", s,
                             IF w3.stream[s].timing_info_valid THEN 1 ELSE 0, tag)
                   ELSE w3
         IN pa_operation_done(w4, tag)

(***************************************************************************)
(* Server events                                                           *)
(***************************************************************************)
\* the stream an event for a channel is delivered to, or NULL
EventStream(w, table, channel) ==
    LET s == w.context[table][channel]
    IN IF s = NULL THEN NULL
       ELSE IF ~ReadsReady(w, s) THEN NULL
       ELSE s

\* m: the device index, the suspended flag, the buffer attributes and the
\* configured latency of the new device
pa_command_stream_moved(w, command, channel, m) ==
    LET s == EventStream(w, IF command = "PLAYBACK_STREAM_MOVED"
                            THEN "playback_streams" ELSE "record_streams", channel)
    IN IF s = NULL THEN w
       ELSE
         LET st == w.stream[s]
             st1 == [st EXCEPT
                       !.buffer_attr = IF w.context.version >= 13 THEN m.buffer_attr ELSE @,
                       !.device_index = m.device_index,
                       !.suspended = m.suspended]
             w1 == request_auto_timing_update([w EXCEPT !.stream[s] = st1], s, TRUE)
         IN IF w1.stream[s].callback["moved"]
            THEN Fire(w1, "moved", s, 0, w1.stream[s].userdata["moved"])
            ELSE w1

pa_command_stream_suspended(w, command, channel, suspended) ==
    LET s == EventStream(w, IF command = "PLAYBACK_STREAM_SUSPENDED"
                            THEN "playback_streams" ELSE "record_streams", channel)
    IN IF s = NULL THEN w
       ELSE
         LET st == w.stream[s]
             st1 == [st EXCEPT
                       !.suspended = suspended,
                       !.smoother = IF @ = "none" THEN @
                                    ELSE IF suspended \/ st.corked THEN "paused"
                                    ELSE "running"]
             w1 == request_auto_timing_update([w EXCEPT !.stream[s] = st1], s, TRUE)
         IN IF w1.stream[s].callback["suspended"]
            THEN Fire(w1, "suspended", s, 0, w1.stream[s].userdata["suspended"])
            ELSE w1

pa_command_stream_started(w, channel) ==
    LET s == EventStream(w, "playback_streams", channel)
    IN IF s = NULL THEN w
       ELSE
         LET w1 == request_auto_timing_update(w, s, TRUE)
         IN IF w1.stream[s].callback["started"]
            THEN Fire(w1, "started", s, 0, w1.stream[s].userdata["suspended"])
            ELSE w1

pa_command_request(w, channel, bytes) ==
    LET s == EventStream(w, "playback_streams", channel)
    IN IF s = NULL THEN w
       ELSE
         LET w1 == [w EXCEPT !.stream[s].requested_bytes = (@ + bytes) % RequestedBytesMod]
             st == w1.stream[s]
         IN IF st.requested_bytes > 0 /\ st.callback["write"]
            THEN Fire(w1, "write", s, st.requested_bytes, st.userdata["write"])
            ELSE w1

pa_command_overflow_or_underflow(w, command, channel) ==
    LET s == EventStream(w, "playback_streams", channel)
    IN IF s = NULL THEN w
       ELSE
         LET st == w.stream[s]
             w0 == IF st.smoother # "none" /\ st.direction = PA_STREAM_PLAYBACK
                      /\ st.buffer_attr.prebuf > 0
                   THEN [w EXCEPT !.stream[s].smoother = "paused"]
                   ELSE w
             w1 == request_auto_timing_update(w0, s, TRUE)
             cb == IF command = "OVERFLOW" THEN "overflow" ELSE "underflow"
         IN IF w1.stream[s].callback[cb]
            THEN Fire(w1, cb, s, 0, w1.stream[s].userdata[cb])
            ELSE w1

\* pstream_memblock_callback of pulse/context.c: recorded data arrives
pstream_memblock_callback(w, channel, length) ==
    LET s == w.context.record_streams[channel]
    IN IF s = NULL THEN w
       ELSE
         LET w1 == [w EXCEPT !.stream[s].record_memblockq = Append(@, length)]
             l == pa_memblockq_get_length(w1.stream[s].record_memblockq)
         IN IF w1.stream[s].callback["read"] /\ l > 0
            THEN Fire(w1, "read", s, l, w1.stream[s].userdata["read"])
            ELSE w1

(***************************************************************************)
(* Initial state: a context with its streams constructed, nothing sent     *)
(***************************************************************************)
SampleSpec == [rate |-> 8000, frame_size |-> 1]

NegotiatedAttr ==
    [maxlength |-> 64, tlength |-> 16, prebuf |-> 4, minreq |-> 2, fragsize |-> 8]

InitWith(c, version, shm) ==
    /\ cfg = c
    /\ stream = [s \in Streams |-> pa_stream_new_with_proplist(SampleSpec)]
    /\ context = [streams |-> Streams,
                  playback_streams |-> [ch \in Channels |-> NULL],
                  record_streams |-> [ch \in Channels |-> NULL],
                  ctag |-> 0,
                  error |-> PA_OK,
                  version |-> version,
                  shm |-> shm,
                  block_size_max |-> c.block_size_max,
                  time_events |-> [s \in Streams |-> "none"],
                  assertion_failed |-> FALSE]
    /\ operations = <<>>
    /\ pdispatch = <<>>
    /\ server = [write_index |-> [s \in Streams |-> 0],
                 read_index |-> [s \in Streams |-> 0],
                 latency |-> <<>>,
                 writes |-> 0,
                 blocks |-> 0]
    /\ app = [time |-> [s \in Streams |-> 0], since |-> <<>>,
              peeked |-> [s \in Streams |-> -1],
              read |-> [s \in Streams |-> [reported |-> 0, queued |-> 0, dropped |-> 0]]]
    /\ last = [op |-> "init", s |-> NULL, arg |-> NoArg, ret |-> PA_OK, value |-> 0,
               fired |-> <<>>, payloads |-> <<>>,
               pre |-> [state |-> "none", requested_bytes |-> 0,
                        direction |-> "none", ctag |-> 0]]

(***************************************************************************)
(* Steps: one API call, one reply or one server event                      *)
(***************************************************************************)
\* what the stream looked like before the step
Pre(s) ==
    IF s \in Streams
    THEN [state |-> stream[s].state, requested_bytes |-> stream[s].requested_bytes,
          direction |-> stream[s].direction, ctag |-> context.ctag]
    ELSE [state |-> "none", requested_bytes |-> 0,
          direction |-> "none", ctag |-> context.ctag]

\* the application's own record: the time it was handed last and, where the
\* scenario keeps it, what it has done to the stream's buffer (writes, cork,
\* flush, prebuf, trigger) since each outstanding latency query, what the
\* last peek since the last drop handed it (-1: no peek since then), and what
\* the last successful latency reply reported as read index, how many bytes
\* sat in the record queue then and how many the application dropped since
AppAfter(w, op, s, arg) ==
    LET a == IF op = "get_time" /\ w.ret = PA_OK
             THEN [app EXCEPT !.time[s] = w.value]
             ELSE app
        done == IF op = "write"
                THEN [op |-> op, seek |-> arg.seek, offset |-> arg.offset,
                      length |-> arg.length]
                ELSE [op |-> op, seek |-> "none", offset |-> 0, length |-> 0]
        read == IF op = "timing_reply" /\ arg.command = PA_COMMAND_REPLY /\ s \in Streams
                THEN [app.read EXCEPT ![s] =
                         [reported |-> arg.read_index,
                          queued |-> SeqSum(stream[s].record_memblockq),
                          dropped |-> 0]]
                ELSE IF op = "drop" /\ w.ret = PA_OK
                THEN [app.read EXCEPT ![s].dropped = @ + stream[s].peek_memchunk]
                ELSE app.read
        b == IF op = "update_timing_info" /\ w.ret = PA_OK
             THEN [a EXCEPT !.since = @ @@ (context.ctag :> [s |-> s, done |-> <<>>])]
             ELSE IF \/ op = "write" /\ w.ret = PA_OK /\ arg.length > 0
                     \/ op \in {"cork", "flush", "prebuf", "trigger"} /\ w.ret = PA_OK
             THEN [a EXCEPT !.since =
                      [t \in DOMAIN a.since |->
                          IF a.since[t].s = s
                          THEN [a.since[t] EXCEPT !.done = Append(@, done)]
                          ELSE a.since[t]]]
             ELSE IF op = "timing_reply"
             THEN [a EXCEPT !.since =
                      [t \in (DOMAIN a.since) \ {arg.tag} |-> a.since[t]]]
             ELSE IF op = "peek" /\ w.ret = PA_OK THEN [a EXCEPT !.peeked[s] = w.value]
             ELSE IF op = "drop" /\ w.ret = PA_OK THEN [a EXCEPT !.peeked[s] = -1]
             ELSE a
    IN IF ~cfg.history THEN a ELSE [b EXCEPT !.read = read]

Commit(w, op, s, arg) ==
    /\ w.context.ctag <= cfg.maxtag
    /\ stream' = w.stream
    /\ context' = w.context
    /\ operations' = w.operations
    /\ pdispatch' = w.pdispatch
    /\ server' = w.server
    /\ last' = [op |-> op, s |-> s, arg |-> arg, ret |-> w.ret, value |-> w.value,
                fired |-> w.fired, payloads |-> w.payloads, pre |-> Pre(s)]
    /\ app' = AppAfter(w, op, s, arg)
    /\ UNCHANGED cfg

\* the replies a handler is waiting for
Pending(handler) == {t \in DOMAIN pdispatch : pdispatch[t].callback = handler}

\* the server's channels: playback and upload streams share one index set,
\* record streams have their own; a channel is reused only once its stream is gone
SameIndexSet(d1, d2) == (d1 = PA_STREAM_RECORD) <=> (d2 = PA_STREAM_RECORD)

FreeChannels(s) ==
    {ch \in Channels :
        \A o \in Streams :
            ~(stream[o].channel_valid /\ stream[o].channel = ch
              /\ SameIndexSet(stream[o].direction, stream[s].direction))}

\* the streams the application still holds its reference to, and so may use
Held == {s \in cfg.streams : stream[s].app_ref}

\* the application releases its reference
Unref ==
    \E s \in Held :
        Commit(pa_stream_unref([World EXCEPT !.stream[s].app_ref = FALSE], s),
               "unref", s, NoArg)

ConnectPlayback ==
    \E s \in Held, attr \in cfg.attrs, flags \in cfg.flagsets :
        /\ PA_STREAM_PLAYBACK \in cfg.directions
        /\ Commit(pa_stream_connect_playback(World, s, attr, flags),
                  "connect_playback", s, [attr |-> attr])

ConnectRecord ==
    \E s \in Held, attr \in cfg.attrs, flags \in cfg.flagsets :
        /\ PA_STREAM_RECORD \in cfg.directions
        /\ Commit(pa_stream_connect_record(World, s, attr, flags),
                  "connect_record", s, [attr |-> attr])

ConnectUpload ==
    \E s \in Held :
        /\ PA_STREAM_UPLOAD \in cfg.directions
        /\ Commit(pa_stream_connect_upload(World, s),
                  "connect_upload", s, NoArg)

CreateReplyOk ==
    \E tag \in Pending("pa_create_stream_callback") :
      LET s == pdispatch[tag].userdata.id IN
      \E ch \in FreeChannels(s), credit \in cfg.credits, susp \in cfg.suspended :
        LET m == [command |-> PA_COMMAND_REPLY, channel |-> ch,
                  requested_bytes |-> IF stream[s].direction = PA_STREAM_RECORD
                                      THEN 0 ELSE credit,
                  buffer_attr |-> NegotiatedAttr, device_index |-> 1,
                  suspended |-> susp]
        IN Commit(pa_create_stream_callback(pdispatch_run(World, tag), s, m),
                  "create_reply", s, m)

CreateReplyError ==
    \E tag \in Pending("pa_create_stream_callback") :
      LET s == pdispatch[tag].userdata.id IN
        Commit(pa_create_stream_callback(pdispatch_run(World, tag), s,
                                         [command |-> PA_COMMAND_ERROR]),
               "create_reply", s, [command |-> PA_COMMAND_ERROR])

Disconnect ==
    \E s \in Held :
        Commit(pa_stream_disconnect(World, s), "disconnect", s,
               NoArg)

DisconnectReply ==
    \E tag \in Pending("pa_stream_disconnect_callback"),
       command \in {PA_COMMAND_REPLY, PA_COMMAND_ERROR} :
      LET s == pdispatch[tag].userdata.id IN
        Commit(pa_stream_disconnect_callback(pdispatch_run(World, tag), s, command),
               "disconnect_reply", s, [command |-> command])

Killed ==
    \E command \in {"PLAYBACK_STREAM_KILLED", "RECORD_STREAM_KILLED"}, ch \in Channels :
        /\ ch \in Channels
        /\ Commit(pa_command_stream_killed(World, command, ch), "killed",
               context[KilledTable(command)][ch],
               [command |-> command, channel |-> ch])

\* the application registers its callback, with a userdata that names it
UserdataOf(which) ==
    CASE which = "read" -> 1 [] which = "write" -> 2 [] which = "state" -> 3
      [] which = "overflow" -> 4 [] which = "underflow" -> 5
      [] which = "latency_update" -> 6 [] which = "moved" -> 7
      [] which = "suspended" -> 8 [] which = "started" -> 9

SetCallback ==
    \E s \in Held, which \in cfg.callbacks :
        /\ ~stream[s].callback[which]
        /\ Commit(pa_stream_set_callback(World, s, which, TRUE, UserdataOf(which)),
                  "set_callback", s, [which |-> which])

(***************************************************************************)
(* Steps: data and control operations                                      *)
(***************************************************************************)
Write ==
    \E s \in Held, length \in cfg.lengths, free_cb \in cfg.free_cbs,
       offset \in cfg.offsets, seek \in cfg.seeks :
        /\ server.writes < cfg.maxwrites
        /\ LET w == pa_stream_write(World, s, length, free_cb, offset, seek)
           IN Commit([w EXCEPT !.server.writes = @ + 1], "write", s,
                     [length |-> length, free_cb |-> free_cb,
                      offset |-> offset, seek |-> seek])

Peek ==
    \E s \in Held : Commit(pa_stream_peek(World, s), "peek", s, NoArg)

Drop ==
    \E s \in Held : Commit(pa_stream_drop(World, s), "drop", s, NoArg)

WritableSize ==
    \E s \in Held :
        Commit(pa_stream_writable_size(World, s), "writable_size", s, NoArg)

ReadableSize ==
    \E s \in Held :
        Commit(pa_stream_readable_size(World, s), "readable_size", s, NoArg)

Drain ==
    \E s \in Held : Commit(pa_stream_drain(World, s, TRUE), "drain", s, NoArg)

Cork ==
    \E s \in Held, b \in cfg.corks :
        Commit(pa_stream_cork(World, s, b, TRUE), "cork", s, [b |-> b])

Flush ==
    \E s \in Held : Commit(pa_stream_flush(World, s, TRUE), "flush", s, NoArg)

Prebuf ==
    \E s \in Held : Commit(pa_stream_prebuf(World, s, TRUE), "prebuf", s, NoArg)

Trigger ==
    \E s \in Held : Commit(pa_stream_trigger(World, s, TRUE), "trigger", s, NoArg)

SetName ==
    \E s \in Held : Commit(pa_stream_set_name(World, s, TRUE), "set_name", s, NoArg)

ProplistUpdate ==
    \E s \in Held :
        Commit(pa_stream_proplist_update(World, s, TRUE), "proplist_update", s, NoArg)

ProplistRemove ==
    \E s \in Held :
        Commit(pa_stream_proplist_remove(World, s, TRUE), "proplist_remove", s, NoArg)

SetBufferAttr ==
    \E s \in Held :
        Commit(pa_stream_set_buffer_attr(World, s, TRUE), "set_buffer_attr", s, NoArg)

UpdateSampleRate ==
    \E s \in Held, rate \in cfg.rates :
        Commit(pa_stream_update_sample_rate(World, s, rate, TRUE),
               "update_sample_rate", s, [rate |-> rate])

UpdateTimingInfo ==
    \E s \in Held :
        Commit(pa_stream_update_timing_info(World, s, TRUE), "update_timing_info", s, NoArg)

GetTime ==
    \E s \in Held, smoothed \in cfg.smoothed :
        Commit(pa_stream_get_time(World, s, smoothed), "get_time", s,
               [smoothed |-> smoothed])

GetLatency ==
    \E s \in Held, smoothed \in cfg.smoothed :
        Commit(pa_stream_get_latency(World, s, smoothed), "get_latency", s,
               [smoothed |-> smoothed])

(***************************************************************************)
(* Steps: replies to operations                                            *)
(***************************************************************************)
SimpleAckReply ==
    \E tag \in Pending("pa_stream_simple_ack_callback"),
       command \in {PA_COMMAND_REPLY, PA_COMMAND_ERROR} :
        Commit(pa_stream_simple_ack_callback(pdispatch_run(World, tag), tag, command),
               "simple_ack_reply", operations[tag].stream,
               [tag |-> tag, command |-> command, kind |-> operations[tag].kind])

BufferAttrReply ==
    \E tag \in Pending("stream_set_buffer_attr_callback"),
       command \in {PA_COMMAND_REPLY, PA_COMMAND_ERROR} :
        Commit(stream_set_buffer_attr_callback(pdispatch_run(World, tag), tag,
                   [command |-> command, buffer_attr |-> cfg.moved_attr]),
               "buffer_attr_reply", operations[tag].stream,
               [tag |-> tag, command |-> command])

SampleRateReply ==
    \E tag \in Pending("stream_update_sample_rate_callback"),
       command \in {PA_COMMAND_REPLY, PA_COMMAND_ERROR} :
        Commit(stream_update_sample_rate_callback(pdispatch_run(World, tag), tag, command),
               "sample_rate_reply", operations[tag].stream,
               [tag |-> tag, command |-> command])

\* the server answers the latency queries in the order it read them
NextLatencyReply ==
    {t \in Pending("stream_get_timing_info_callback") :
        \A u \in Pending("stream_get_timing_info_callback") : t <= u}

\* the server's snapshot leaves the wire with the reply
LatencyDelivered(w, tag) ==
    [w EXCEPT !.server.latency = [t \in (DOMAIN @) \ {tag} |-> @[t]]]

TimingReply ==
    \E tag \in NextLatencyReply, t \in cfg.timings, oob \in cfg.oob :
        LET m == [command |-> PA_COMMAND_REPLY,
                  sink_usec |-> t.sink_usec, source_usec |-> t.source_usec,
                  playing |-> t.playing,
                  local |-> t.local, remote |-> t.remote, now |-> t.now,
                  write_index |-> server.latency[tag] + t.record_write_index,
                  read_index |-> t.read_index,
                  playing_for |-> 0, underrun_for |-> 0]
        IN Commit(LatencyDelivered(
                      stream_get_timing_info_callback(pdispatch_run(World, tag),
                                                      tag, m, oob), tag),
                  "timing_reply", operations[tag].stream,
                  [tag |-> tag, command |-> PA_COMMAND_REPLY, oob |-> oob,
                   write_index |-> m.write_index, read_index |-> m.read_index])

TimingReplyError ==
    \E tag \in NextLatencyReply :
        Commit(LatencyDelivered(
                   stream_get_timing_info_callback(pdispatch_run(World, tag), tag,
                       [command |-> PA_COMMAND_ERROR], NoCorrection), tag),
               "timing_reply", operations[tag].stream,
               [tag |-> tag, command |-> PA_COMMAND_ERROR])

(***************************************************************************)
(* Steps: server events, arriving data, the timer                          *)
(***************************************************************************)
Moved ==
    \E command \in {"PLAYBACK_STREAM_MOVED", "RECORD_STREAM_MOVED"}, ch \in Channels,
       susp \in cfg.suspended :
        LET tbl == IF command = "PLAYBACK_STREAM_MOVED"
                   THEN "playback_streams" ELSE "record_streams"
        IN /\ (cfg.stray \/ context[tbl][ch] # NULL)
           /\ Commit(pa_command_stream_moved(World, command, ch,
                         [buffer_attr |-> cfg.moved_attr, device_index |-> 2,
                          suspended |-> susp]),
                     "moved", context[tbl][ch], [command |-> command, channel |-> ch])

Suspended ==
    \E command \in {"PLAYBACK_STREAM_SUSPENDED", "RECORD_STREAM_SUSPENDED"},
       ch \in Channels, susp \in BOOLEAN :
        LET tbl == IF command = "PLAYBACK_STREAM_SUSPENDED"
                   THEN "playback_streams" ELSE "record_streams"
        IN /\ (cfg.stray \/ context[tbl][ch] # NULL)
           /\ Commit(pa_command_stream_suspended(World, command, ch, susp),
                     "suspended", context[tbl][ch],
                     [command |-> command, channel |-> ch, suspended |-> susp])

Started ==
    \E ch \in Channels :
        /\ (cfg.stray \/ context.playback_streams[ch] # NULL)
        /\ Commit(pa_command_stream_started(World, ch), "started",
                  context.playback_streams[ch], [channel |-> ch])

Request ==
    \E ch \in Channels, bytes \in cfg.requests :
        /\ (cfg.stray \/ context.playback_streams[ch] # NULL)
        \* the server asks for no more than its buffer can take
        /\ context.playback_streams[ch] # NULL =>
               stream[context.playback_streams[ch]].requested_bytes + bytes <= cfg.maxcredit
        /\ Commit(pa_command_request(World, ch, bytes), "request",
                  context.playback_streams[ch], [channel |-> ch, bytes |-> bytes])

OverflowOrUnderflow ==
    \E command \in {"OVERFLOW", "UNDERFLOW"}, ch \in Channels :
        /\ (cfg.stray \/ context.playback_streams[ch] # NULL)
        /\ Commit(pa_command_overflow_or_underflow(World, command, ch), "overflow_or_underflow",
                  context.playback_streams[ch], [command |-> command, channel |-> ch])

MemblockArrives ==
    \E ch \in Channels, length \in cfg.lengths :
        /\ context.record_streams[ch] # NULL
        /\ length > 0
        /\ server.blocks < cfg.maxblocks
        /\ Commit([pstream_memblock_callback(World, ch, length)
                      EXCEPT !.server.blocks = @ + 1], "memblock",
                  context.record_streams[ch], [channel |-> ch, length |-> length])

TimerFires ==
    \E s \in cfg.streams :
        /\ context.time_events[s] = "armed"
        /\ Commit(auto_timing_update_callback(World, s), "timer", s, NoArg)

(***************************************************************************)
(* The lifecycle specification: two streams of any direction, connected,   *)
(* answered, corked, disconnected and killed in any order                  *)
(***************************************************************************)
NoTiming ==
    [sink_usec |-> 0, source_usec |-> 0, playing |-> FALSE,
     local |-> 0, remote |-> 0, now |-> 0, read_index |-> 0, record_write_index |-> 0]

LifeCfg ==
    [maxtag |-> LifeMaxTag,
     streams |-> Streams,
     directions |-> {PA_STREAM_PLAYBACK, PA_STREAM_RECORD, PA_STREAM_UPLOAD},
     attrs |-> {<<>>},
     flagsets |-> {{}},
     callbacks |-> {"state"},
     corks |-> {TRUE},
     credits |-> {2},
     suspended |-> {FALSE},
     block_size_max |-> 4,
     lengths |-> {1},
     free_cbs |-> {FALSE},
     offsets |-> {0},
     seeks |-> {PA_SEEK_RELATIVE},
     maxwrites |-> 0,
     maxblocks |-> 0,
     rates |-> {8000},
     smoothed |-> {0},
     requests |-> {1},
     maxcredit |-> 3,
     timings |-> {NoTiming},
     oob |-> {NoCorrection},
     history |-> FALSE,
     stray |-> FALSE,
     unref_in_callback |-> FALSE,
     freed_reads_ready |-> FALSE,
     moved_attr |-> NegotiatedAttr]

Init == InitWith(LifeCfg, 13, FALSE)

Next ==
    \/ ConnectPlayback
    \/ ConnectRecord
    \/ ConnectUpload
    \/ CreateReplyOk
    \/ CreateReplyError
    \/ Disconnect
    \/ DisconnectReply
    \/ Killed
    \/ SetCallback
    \/ Cork
    \/ SimpleAckReply

Spec == Init /\ [][Next]_vars

(***************************************************************************)
(* The operation specification: one stream, every operation of the API,    *)
(* called in every lifecycle state                                         *)
(***************************************************************************)
OpsCfg ==
    [maxtag |-> OpsMaxTag,
     streams |-> {1},
     directions |-> {PA_STREAM_PLAYBACK, PA_STREAM_RECORD, PA_STREAM_UPLOAD},
     attrs |-> {<<>>},
     flagsets |-> {{"VARIABLE_RATE"}},
     callbacks |-> {},
     corks |-> {TRUE},
     credits |-> {0, 2},
     suspended |-> {FALSE},
     block_size_max |-> 4,
     lengths |-> {1, 3},
     free_cbs |-> {FALSE},
     offsets |-> {0},
     seeks |-> {PA_SEEK_RELATIVE},
     maxwrites |-> OpsMaxWrites,
     maxblocks |-> OpsMaxBlocks,
     rates |-> {4000},
     smoothed |-> {0},
     requests |-> {1},
     maxcredit |-> 3,
     timings |-> {NoTiming},
     oob |-> {NoCorrection},
     history |-> FALSE,
     stray |-> FALSE,
     unref_in_callback |-> FALSE,
     freed_reads_ready |-> FALSE,
     moved_attr |-> NegotiatedAttr]

InitOps == InitWith(OpsCfg, 13, FALSE)

NextOps ==
    \/ ConnectPlayback
    \/ ConnectRecord
    \/ ConnectUpload
    \/ CreateReplyOk
    \/ CreateReplyError
    \/ Disconnect
    \/ DisconnectReply
    \/ Killed
    \/ Write
    \/ Peek
    \/ Drop
    \/ WritableSize
    \/ ReadableSize
    \/ Drain
    \/ Cork
    \/ Flush
    \/ Prebuf
    \/ Trigger
    \/ SetName
    \/ ProplistUpdate
    \/ ProplistRemove
    \/ SetBufferAttr
    \/ UpdateSampleRate
    \/ UpdateTimingInfo
    \/ GetTime
    \/ GetLatency
    \/ SimpleAckReply
    \/ BufferAttrReply
    \/ SampleRateReply
    \/ TimingReply
    \/ TimingReplyError
    \/ Request
    \/ MemblockArrives

SpecOps == InitOps /\ [][NextOps]_vars

(***************************************************************************)
(* The creation specification: one stream whose application installs its   *)
(* state and write callbacks at any moment                                 *)
(***************************************************************************)
CreateCfg ==
    [OpsCfg EXCEPT !.maxtag = CreateMaxTag,
                   !.callbacks = {"state", "write"},
                   !.flagsets = {{}},
                   !.lengths = {1},
                   !.maxwrites = CreateMaxWrites]

InitCreate == InitWith(CreateCfg, 13, FALSE)

NextCreate ==
    \/ ConnectPlayback
    \/ ConnectRecord
    \/ ConnectUpload
    \/ CreateReplyOk
    \/ CreateReplyError
    \/ Disconnect
    \/ DisconnectReply
    \/ Killed
    \/ SetCallback
    \/ Write
    \/ Request

SpecCreate == InitCreate /\ [][NextCreate]_vars

(***************************************************************************)
(* The timing specification: one playback stream, absolute and relative    *)
(* writes interleaved with latency queries and their replies               *)
(***************************************************************************)
\* what a read of write_index_corrections[N] can find: the word behind the
\* array is current_write_index_correction, which holds N-1 at that moment;
\* the bits read as "valid" are indeterminate
BehindTheRing ==
    [valid |-> TRUE, tag |-> PA_MAX_WRITE_INDEX_CORRECTIONS - 1, value |-> 1,
     absolute |-> FALSE, corrupt |-> FALSE]

TimingCfg ==
    [OpsCfg EXCEPT !.maxtag = TimingMaxTag,
                   !.directions = {PA_STREAM_PLAYBACK},
                   !.flagsets = {{}},
                   !.credits = {2},
                   !.lengths = {1},
                   !.offsets = {0, 2},
                   !.seeks = {PA_SEEK_RELATIVE, PA_SEEK_ABSOLUTE},
                   !.maxwrites = TimingMaxWrites,
                   !.oob = {NoCorrection, BehindTheRing}]

InitTiming == InitWith(TimingCfg, 13, FALSE)

NextTiming ==
    \/ ConnectPlayback
    \/ CreateReplyOk
    \/ Write
    \/ UpdateTimingInfo
    \/ TimingReply
    \/ TimingReplyError

SpecTiming == InitTiming /\ [][NextTiming]_vars

(***************************************************************************)
(* The clock specification: one playback or record stream whose time is    *)
(* read between latency replies, writes, corks and server events           *)
(***************************************************************************)
LaterTiming ==
    [NoTiming EXCEPT !.read_index = 8, !.record_write_index = 8, !.playing = TRUE,
                     !.sink_usec = 250]

TimeCfg ==
    [OpsCfg EXCEPT !.maxtag = TimeMaxTag,
                   !.directions = {PA_STREAM_PLAYBACK, PA_STREAM_RECORD},
                   !.flagsets = {{}, {"NOT_MONOTONOUS"}, {"INTERPOLATE_TIMING"}},
                   !.corks = BOOLEAN,
                   !.credits = {2},
                   !.lengths = {1},
                   !.maxwrites = TimeMaxWrites,
                   !.smoothed = {0, 500},
                   !.timings = {NoTiming, LaterTiming}]

InitTime == InitWith(TimeCfg, 13, FALSE)

NextTime ==
    \/ ConnectPlayback
    \/ ConnectRecord
    \/ CreateReplyOk
    \/ Write
    \/ Cork
    \/ Flush
    \/ UpdateTimingInfo
    \/ GetTime
    \/ SimpleAckReply
    \/ TimingReply
    \/ TimingReplyError
    \/ Moved
    \/ Suspended
    \/ OverflowOrUnderflow

SpecTime == InitTime /\ [][NextTime]_vars

(***************************************************************************)
(* Properties                                                              *)
(***************************************************************************)
Terminal == {PA_STREAM_FAILED, PA_STREAM_TERMINATED}

Forward ==
    {<<PA_STREAM_UNCONNECTED, PA_STREAM_CREATING>>,
     <<PA_STREAM_CREATING, PA_STREAM_READY>>,
     <<PA_STREAM_CREATING, PA_STREAM_FAILED>>,
     <<PA_STREAM_READY, PA_STREAM_TERMINATED>>,
     <<PA_STREAM_READY, PA_STREAM_FAILED>>}

\* the step put nothing on the wire
SendsNothing ==
    /\ context'.ctag = context.ctag
    /\ pdispatch' = pdispatch
    /\ last'.payloads = <<>>

\* the user callbacks a step invoked for stream s
FiredFor(l, s) == {i \in DOMAIN l.fired : l.fired[i].s = s}

\* no operation created for s is still live
OperationsCancelled(s) ==
    \A t \in DOMAIN operations :
        operations[t].target = s =>
            /\ ~operations[t].context
            /\ ~operations[t].callback
            /\ operations[t].stream = NULL

\* no create or disconnect reply is awaited for s
RepliesDropped(s) ==
    \A t \in DOMAIN pdispatch :
        ~(pdispatch[t].userdata.kind = "stream" /\ pdispatch[t].userdata.id = s)

\* stream_unlink has run on s
Unlinked(s) ==
    /\ ~stream[s].context
    /\ s \notin context.streams
    /\ ~stream[s].channel_valid
    /\ OperationsCancelled(s)
    /\ RepliesDropped(s)

\* C1: a stream's state only moves forward along unconnected -> creating ->
\* ready -> {terminated, failed} (creating -> failed allowed); a connect
\* succeeds only from unconnected, otherwise it fails with bad-state and sends
\* nothing; a failed or terminated stream never changes state again.
C1_LifecycleForward ==
    [][\A s \in Streams :
          /\ stream'[s].state # stream[s].state =>
                 <<stream[s].state, stream'[s].state>> \in Forward
          /\ stream[s].state \in Terminal => stream'[s].state = stream[s].state
          /\ (last'.op \in {"connect_playback", "connect_record"} /\ last'.s = s) =>
                 /\ last'.ret = PA_OK => stream[s].state = PA_STREAM_UNCONNECTED
                 /\ stream[s].state # PA_STREAM_UNCONNECTED =>
                        /\ last'.ret = PA_ERR_BADSTATE
                        /\ SendsNothing
                        /\ stream'[s] = stream[s]
      ]_vars

\* a connect was tried on a stream that had already failed or terminated
C1_Witness ==
    /\ last.op \in {"connect_playback", "connect_record"}
    /\ last.pre.state \in Terminal
    /\ last.ret = PA_ERR_BADSTATE
    /\ stream[last.s].state = last.pre.state

\* C2: after a transition into failed or terminated, for a stream of any
\* direction, the stream is absent from the context's stream list and from
\* every channel table, channel_valid is false, every operation that targeted
\* it is cancelled, its callbacks are cleared and stay cleared, and none of
\* its callbacks fires afterwards.
C2_UnlinkComplete ==
    \A s \in Streams :
        stream[s].state \in Terminal =>
            /\ s \notin context.streams
            /\ \A ch \in Channels :
                   /\ context.playback_streams[ch] # s
                   /\ context.record_streams[ch] # s
            /\ ~stream[s].channel_valid
            /\ OperationsCancelled(s)
            /\ \A n \in CallbackNames : ~stream[s].callback[n]
            /\ (last.s = s /\ last.pre.state \in Terminal) => FiredFor(last, s) = {}

\* an upload stream has reached a terminal state
C2_Witness ==
    \E s \in Streams :
        /\ stream[s].state \in Terminal
        /\ stream[s].direction = PA_STREAM_UPLOAD
        /\ last.op = "disconnect_reply"
        /\ last.s = s

\* C3: on a successful create reply a creating stream becomes ready, stores
\* the channel and the initial credit, is registered under the channel with
\* channel_valid set, and - if the credit is > 0 and a write callback is set -
\* the write callback is invoked exactly once, with the credit as length,
\* after the state callback has reported ready.
C3_CreateReply ==
    [][(last'.op = "create_reply" /\ last'.arg.command = PA_COMMAND_REPLY) =>
          LET s == last'.s
              m == last'.arg
              writes == {i \in DOMAIN last'.fired : last'.fired[i].cb = "write"}
              states == {i \in DOMAIN last'.fired : last'.fired[i].cb = "state"}
          IN /\ stream[s].state = PA_STREAM_CREATING
             /\ stream'[s].state = PA_STREAM_READY
             /\ stream'[s].channel = m.channel
             /\ stream'[s].channel_valid
             /\ stream[s].direction # PA_STREAM_RECORD =>
                    stream'[s].requested_bytes = m.requested_bytes
             /\ IF stream[s].direction = PA_STREAM_RECORD
                THEN context'.record_streams[m.channel] = s
                ELSE context'.playback_streams[m.channel] = s
             /\ stream[s].callback["state"] => Cardinality(states) = 1
             /\ IF stream'[s].requested_bytes > 0 /\ stream[s].callback["write"]
                THEN /\ Cardinality(writes) = 1
                     /\ \A i \in writes :
                            /\ last'.fired[i].s = s
                            /\ last'.fired[i].arg = m.requested_bytes
                            /\ \A j \in states : j < i
                ELSE writes = {}
      ]_vars

\* a create reply granted credit to a stream with both callbacks installed
C3_Witness ==
    /\ last.op = "create_reply"
    /\ last.arg.command = PA_COMMAND_REPLY
    /\ last.arg.requested_bytes = 2
    /\ stream[last.s].state = PA_STREAM_READY
    /\ Len(last.fired) = 2
    /\ last.fired[1].cb = "state"
    /\ last.fired[2].cb = "write"
    /\ last.fired[2].arg = 2

\* C4: every accepted write of len > 0 on a ready playback or upload stream
\* leaves requested_bytes = max(0, requested_bytes_before - len); a write
\* larger than the credit is accepted and clamps the credit to 0.
C4_CreditConservation ==
    [][(/\ last'.op = "write"
        /\ last'.arg.length > 0
        /\ stream[last'.s].state = PA_STREAM_READY
        /\ stream[last'.s].direction \in {PA_STREAM_PLAYBACK, PA_STREAM_UPLOAD}) =>
          /\ last'.ret = PA_OK
          /\ stream'[last'.s].requested_bytes =
                 Max(0, stream[last'.s].requested_bytes - last'.arg.length)
      ]_vars

\* a write larger than the credit went through
C4_Witness ==
    /\ last.op = "write"
    /\ last.ret = PA_OK
    /\ last.pre.requested_bytes > 0
    /\ last.arg.length > last.pre.requested_bytes
    /\ stream[last.s].requested_bytes = 0
    /\ last.payloads # <<>>

\* C5: for a playback stream that uses only absolute and relative seeks and
\* never flushes, with the server consuming writes and latency queries in
\* issue order, after every successfully processed latency reply
\* timing_info.write_index is not corrupt and equals the server's write index
\* of that reply plus the effect of exactly the writes issued after that
\* query, and it keeps tracking the writes issued after the reply: whenever
\* the snapshot is valid it is the server's write index.
C5_WriteIndexExact ==
    \A s \in Streams :
        stream[s].timing_info_valid =>
            /\ ~stream[s].timing_info.write_index_corrupt
            /\ stream[s].timing_info.write_index = server.write_index[s]

\* a latency reply was processed while the newest query sat in the last slot
C5_Witness ==
    /\ last.op = "timing_reply"
    /\ last.arg.command = PA_COMMAND_REPLY
    /\ stream[last.s].current_write_index_correction = PA_MAX_WRITE_INDEX_CORRECTIONS - 1
    /\ stream[last.s].timing_info_valid

GuardedOperations ==
    {"write", "peek", "drop", "writable_size", "readable_size", "drain", "cork",
     "flush", "prebuf", "trigger", "set_name", "update_timing_info", "get_time",
     "get_latency", "set_buffer_attr", "update_sample_rate", "proplist_update",
     "proplist_remove"}

\* C7: every data-path and control operation called with otherwise valid
\* arguments on a stream that is not ready fails with bad-state, sends
\* nothing, creates no operation and leaves every stream field unchanged.
C7_NotReadyRejected ==
    [][(last'.op \in GuardedOperations /\ stream[last'.s].state # PA_STREAM_READY) =>
          /\ last'.ret = PA_ERR_BADSTATE
          /\ SendsNothing
          /\ operations' = operations
          /\ stream' = stream
          /\ last'.fired = <<>>
      ]_vars

\* an operation of every kind was refused on a stream that is not ready
C7_Witness ==
    /\ last.op = "cork"
    /\ last.pre.state = PA_STREAM_CREATING
    /\ last.ret = PA_ERR_BADSTATE
    /\ ~stream[last.s].corked

OperationReplies ==
    {"simple_ack_reply", "buffer_attr_reply", "sample_rate_reply", "timing_reply"}

\* C8: once a stream has become failed or terminated, the completion callback
\* of an operation that was pending on it is never invoked, and a reply that
\* arrives for such an operation modifies no stream state.
C8_Cancellation ==
    [][(/\ last'.op \in OperationReplies
        /\ stream[operations[last'.arg.tag].target].state \in Terminal) =>
          /\ last'.fired = <<>>
          /\ stream' = stream
      ]_vars

\* the reply to a sample-rate update arrived after its stream was gone
C8_Witness ==
    /\ last.op = "sample_rate_reply"
    /\ last.arg.command = PA_COMMAND_REPLY
    /\ last.s = NULL
    /\ \E s \in Streams :
           /\ stream[s].state \in Terminal
           /\ stream[s].sample_spec.rate = SampleSpec.rate

NamedByKilled(s, command, ch) ==
    /\ stream[s].state = PA_STREAM_READY
    /\ stream[s].channel_valid
    /\ stream[s].channel = ch
    /\ (command = "RECORD_STREAM_KILLED") <=> (stream[s].direction = PA_STREAM_RECORD)

\* C10: a KILLED event naming the channel of a ready stream moves exactly
\* that stream to failed (context error = killed), cancels its pending
\* operations without invoking their callbacks, drops its pending replies and
\* clears its channel-table slot; a KILLED event for a channel with no
\* registered stream, or for a stream that is not ready, changes no stream's
\* state.
C10_Killed ==
    [][last'.op = "killed" =>
          \A s \in Streams :
              IF NamedByKilled(s, last'.arg.command, last'.arg.channel)
              THEN /\ stream'[s].state = PA_STREAM_FAILED
                   /\ context'.error = PA_ERR_KILLED
                   /\ OperationsCancelled(s)'
                   /\ RepliesDropped(s)'
                   /\ \A i \in DOMAIN last'.fired : last'.fired[i].cb # "operation"
                   /\ context'[KilledTable(last'.arg.command)][last'.arg.channel] = NULL
              ELSE stream'[s].state = stream[s].state
      ]_vars

\* a KILLED event reached a ready stream that had an operation pending
C10_Witness ==
    /\ last.op = "killed"
    /\ last.s \in Streams
    /\ last.pre.state = PA_STREAM_READY
    /\ stream[last.s].state = PA_STREAM_FAILED
    /\ \E t \in DOMAIN operations : operations[t].target = last.s


(***************************************************************************)
(* The credit specification: one playback stream whose server sends        *)
(* REQUEST events of any size while the application writes                 *)
(***************************************************************************)
\* the number of commands the application sends
CreditMaxTag == 1

\* the number of writes the application issues
CreditMaxWrites == 2

CreditCfg ==
    [OpsCfg EXCEPT !.maxtag = CreditMaxTag,
                   !.directions = {PA_STREAM_PLAYBACK},
                   !.flagsets = {{}},
                   !.callbacks = {"write"},
                   !.credits = {0, 2},
                   !.lengths = {1},
                   !.maxwrites = CreditMaxWrites,
                   !.requests = {1, RequestedBytesMod \div 2},
                   !.maxcredit = 2 * RequestedBytesMod]

InitCredit == InitWith(CreditCfg, 13, FALSE)

NextCredit ==
    \/ ConnectPlayback
    \/ CreateReplyOk
    \/ SetCallback
    \/ Write
    \/ Request

SpecCredit == InitCredit /\ [][NextCredit]_vars

\* C11: a REQUEST event carrying b bytes for a ready playback stream sets
\* requested_bytes to requested_bytes_before + b, so the credit never
\* decreases (no wrap-around), and the write callback is invoked, with the new
\* total credit as its length, iff the new credit is > 0 and a write callback
\* is set.
C11_Request ==
    [][\A s \in Streams :
          (/\ last'.op = "request"
           /\ last'.s = s
           /\ stream[s].state = PA_STREAM_READY
           /\ stream[s].direction = PA_STREAM_PLAYBACK) =>
             LET new == stream'[s].requested_bytes
                 writes == {i \in DOMAIN last'.fired : last'.fired[i].cb = "write"}
             IN /\ new = stream[s].requested_bytes + last'.arg.bytes
                /\ new >= stream[s].requested_bytes
                /\ IF new > 0 /\ stream[s].callback["write"]
                   THEN /\ Cardinality(writes) = 1
                        /\ \A i \in writes : /\ last'.fired[i].s = s
                                             /\ last'.fired[i].arg = new
                   ELSE writes = {}
      ]_vars

\* a REQUEST raised the credit of a ready playback stream and the write
\* callback was told the new total
C11_Witness ==
    /\ last.op = "request"
    /\ last.pre.state = PA_STREAM_READY
    /\ last.pre.direction = PA_STREAM_PLAYBACK
    /\ last.pre.requested_bytes > 0
    /\ stream[last.s].requested_bytes = last.pre.requested_bytes + last.arg.bytes
    /\ Len(last.fired) = 1
    /\ last.fired[1].cb = "write"
    /\ last.fired[1].arg = stream[last.s].requested_bytes


\* the corrections the reply processed in the step applied, in order
AppliedIn(s) ==
    AppliedCorrections(stream[s].write_index_corrections, last'.arg.oob, 0,
                       RingWalkStart(stream[s].current_write_index_correction),
                       last'.arg.tag)

\* a successful latency reply was processed for playback stream s in the step
LatencyReplyFor(s) ==
    /\ last'.op = "timing_reply"
    /\ last'.arg.command = PA_COMMAND_REPLY
    /\ last'.s = s
    /\ stream[s].direction = PA_STREAM_PLAYBACK

SeekMaxTag == 3

\* the number of writes the application issues
SeekMaxWrites == 2

\* a word behind the array that reads as an absolute correction
AbsoluteBehindTheRing == [BehindTheRing EXCEPT !.absolute = TRUE]

SeekCfg ==
    [OpsCfg EXCEPT !.maxtag = SeekMaxTag,
                   !.directions = {PA_STREAM_PLAYBACK, PA_STREAM_RECORD},
                   !.flagsets = {{}},
                   !.credits = {2},
                   !.lengths = {1},
                   !.offsets = {0, 2},
                   !.seeks = {PA_SEEK_RELATIVE, PA_SEEK_ABSOLUTE, PA_SEEK_RELATIVE_ON_READ},
                   !.maxwrites = SeekMaxWrites,
                   !.timings = {NoTiming, LaterTiming},
                   !.oob = {NoCorrection, BehindTheRing, AbsoluteBehindTheRing},
                   !.history = TRUE]

InitSeek == InitWith(SeekCfg, 13, FALSE)

NextSeek ==
    \/ ConnectPlayback
    \/ ConnectRecord
    \/ CreateReplyOk
    \/ Write
    \/ Cork
    \/ Flush
    \/ Prebuf
    \/ Trigger
    \/ UpdateTimingInfo
    \/ SimpleAckReply
    \/ TimingReply
    \/ TimingReplyError

SpecSeek == InitSeek /\ [][NextSeek]_vars


\* what the application did to stream s between issuing the latency query
\* answered in the step and that answer
Since(s) == app.since[last'.arg.tag].done

\* an absolute-seek write followed only by relative writes, and nothing else
AbsoluteThenRelative(done) ==
    /\ done # <<>>
    /\ \A k \in DOMAIN done : done[k].op = "write"
    /\ done[1].seek = PA_SEEK_ABSOLUTE
    /\ \A k \in DOMAIN done : k > 1 => done[k].seek = PA_SEEK_RELATIVE

\* the sum of offset + length over the writes from the k-th on
RECURSIVE SeekSum(_, _)
SeekSum(done, k) ==
    IF k > Len(done) THEN 0
    ELSE done[k].offset + done[k].length + SeekSum(done, k + 1)

\* C13: if, between a latency query on a playback stream and its reply, the
\* application performs an absolute-seek write (o, l) followed only by
\* relative writes, then after the reply the snapshot's write_index is o + l
\* plus the sum of offset + length of the relative writes and is not corrupt,
\* whatever write index the server reported.
C13_AbsoluteSeek ==
    [][\A s \in Streams :
          (LatencyReplyFor(s) /\ AbsoluteThenRelative(Since(s))) =>
              /\ stream'[s].timing_info_valid
              /\ ~stream'[s].timing_info.write_index_corrupt
              /\ stream'[s].timing_info.write_index = SeekSum(Since(s), 1)
      ]_vars

\* a reply that reported another write index arrived after an absolute write
\* and a relative one, and the snapshot shows their sum
C13_Witness ==
    /\ last.op = "timing_reply"
    /\ last.arg.command = PA_COMMAND_REPLY
    /\ last.s \in Streams
    /\ last.pre.direction = PA_STREAM_PLAYBACK
    /\ last.arg.write_index = 8
    /\ server.writes = 2
    /\ server.write_index[last.s] = 6
    /\ stream[last.s].timing_info.write_index = 6
    /\ ~stream[last.s].timing_info.write_index_corrupt


\* a write with a seek mode that is neither absolute nor relative, and no
\* absolute-seek write after it
CorruptingSeek(done) ==
    \E k \in DOMAIN done :
        /\ done[k].op = "write"
        /\ done[k].seek = PA_SEEK_RELATIVE_ON_READ
        /\ \A l \in DOMAIN done : l > k => done[l].seek # PA_SEEK_ABSOLUTE

\* C14: if, between a latency query on a playback stream and its reply, the
\* application performs a write with seek mode relative-on-read or
\* relative-to-end and no later absolute-seek write, then after the reply
\* write_index_corrupt is true, whatever write index the server reported.
C14_CorruptingSeek ==
    [][\A s \in Streams :
          (LatencyReplyFor(s) /\ CorruptingSeek(Since(s))) =>
              stream'[s].timing_info.write_index_corrupt
      ]_vars

\* a reply arrived after a relative-on-read write and left the write index
\* marked corrupt
C14_Witness ==
    /\ last.op = "timing_reply"
    /\ last.arg.command = PA_COMMAND_REPLY
    /\ last.s \in Streams
    /\ last.pre.direction = PA_STREAM_PLAYBACK
    /\ last.arg.write_index = 8
    /\ server.writes = 1
    /\ stream[last.s].write_index_not_before = 0
    /\ stream[last.s].timing_info_valid
    /\ stream[last.s].timing_info.write_index_corrupt
    /\ stream[last.s].timing_info.write_index = 0


\* a successful latency reply was processed for stream s in the step
SuccessfulReplyFor(s) ==
    /\ last'.op = "timing_reply"
    /\ last'.arg.command = PA_COMMAND_REPLY
    /\ last'.s = s

\* C15: in every reachable state, when a successful latency reply with tag T
\* is processed and T < write_index_not_before, the resulting snapshot has
\* write_index_corrupt = true (likewise read_index_corrupt when
\* T < read_index_not_before); the correction-ring walk does not clear it.
C15_Barrier ==
    [][\A s \in Streams :
          SuccessfulReplyFor(s) =>
              /\ last'.arg.tag < stream[s].write_index_not_before =>
                     stream'[s].timing_info.write_index_corrupt
              /\ last'.arg.tag < stream[s].read_index_not_before =>
                     stream'[s].timing_info.read_index_corrupt
      ]_vars

\* the reply to a query older than the barrier that a flush set on a record
\* stream left the write index marked corrupt
C15_Witness ==
    /\ last.op = "timing_reply"
    /\ last.arg.command = PA_COMMAND_REPLY
    /\ last.s \in Streams
    /\ last.arg.tag < stream[last.s].write_index_not_before
    /\ stream[last.s].timing_info_valid
    /\ stream[last.s].timing_info.write_index_corrupt
    /\ ~stream[last.s].timing_info.read_index_corrupt


\* the application corked the stream after issuing the query answered in the step
CorkedSince(s) ==
    \E k \in DOMAIN Since(s) : Since(s)[k].op = "cork"

\* C16: cork() on a ready playback stream sets write_index_not_before to the
\* context's current tag counter, so the reply to any latency query that was
\* issued before the cork yields write_index_corrupt = true.
C16_CorkBarrier ==
    [][\A s \in Streams :
          /\ (/\ last'.op = "cork"
              /\ last'.s = s
              /\ stream[s].state = PA_STREAM_READY
              /\ stream[s].direction = PA_STREAM_PLAYBACK) =>
                 stream'[s].write_index_not_before = context'.ctag
          /\ (LatencyReplyFor(s) /\ CorkedSince(s)) =>
                 stream'[s].timing_info.write_index_corrupt
      ]_vars

\* a ready playback stream was corked while a latency query was outstanding
C16_Witness ==
    /\ last.op = "cork"
    /\ last.ret = PA_OK
    /\ last.pre.state = PA_STREAM_READY
    /\ last.pre.direction = PA_STREAM_PLAYBACK
    /\ stream[last.s].corked
    /\ \E t \in DOMAIN app.since : t < last.pre.ctag


\* C17: pa_stream_update_timing_info on a ready playback stream fails with
\* the internal error exactly when slot (current_write_index_correction + 1)
\* mod N is still valid; then no command is sent, no operation is created and
\* the ring, its cursor and the timing info are unchanged. Otherwise the
\* cursor advances to that slot, which becomes {valid, tag = the query's tag,
\* value 0, not absolute, not corrupt}.
C17_RingCapacity ==
    [][\A s \in Streams :
          (/\ last'.op = "update_timing_info"
           /\ last'.s = s
           /\ stream[s].state = PA_STREAM_READY
           /\ stream[s].direction = PA_STREAM_PLAYBACK) =>
             LET cidx == (stream[s].current_write_index_correction + 1)
                             % PA_MAX_WRITE_INDEX_CORRECTIONS
             IN IF stream[s].write_index_corrections[cidx].valid
                THEN /\ last'.ret = PA_ERR_INTERNAL
                     /\ SendsNothing
                     /\ operations' = operations
                     /\ stream'[s].write_index_corrections = stream[s].write_index_corrections
                     /\ stream'[s].current_write_index_correction =
                            stream[s].current_write_index_correction
                     /\ stream'[s].timing_info = stream[s].timing_info
                     /\ stream'[s].timing_info_valid = stream[s].timing_info_valid
                ELSE /\ last'.ret = PA_OK
                     /\ stream'[s].current_write_index_correction = cidx
                     /\ stream'[s].write_index_corrections =
                            [stream[s].write_index_corrections EXCEPT ![cidx] =
                                [valid |-> TRUE, tag |-> context.ctag, value |-> 0,
                                 absolute |-> FALSE, corrupt |-> FALSE]]
                     /\ context'.ctag = context.ctag + 1
                     /\ pdispatch'[context.ctag].callback = "stream_get_timing_info_callback"
      ]_vars

\* a latency query was refused because every slot of the ring was taken
C17_Witness ==
    /\ last.op = "update_timing_info"
    /\ last.ret = PA_ERR_INTERNAL
    /\ last.pre.state = PA_STREAM_READY
    /\ last.pre.direction = PA_STREAM_PLAYBACK
    /\ context.error = PA_ERR_INTERNAL
    /\ \A n \in Ring : stream[last.s].write_index_corrections[n].valid


\* channel_valid iff the table the stream's server events are looked up in
\* (the one its create reply entered it in) maps its channel to it, once
ChannelRegistered(s) ==
    stream[s].channel_valid <=>
        /\ context[CreateTable(stream[s].direction)][stream[s].channel] = s
        /\ Cardinality({ch \in Channels :
               context[CreateTable(stream[s].direction)][ch] = s}) = 1

\* C18: between handler invocations, for every stream of any direction,
\* channel_valid is true iff the channel table that server events for the
\* stream are looked up in maps the stream's channel to that stream exactly
\* once; a stream that unlinks clears only its own entry, never the entry of
\* another stream.
C18_ChannelTable ==
    [][/\ \A s \in Streams : ChannelRegistered(s)'
       /\ \A tbl \in {"playback_streams", "record_streams"}, ch \in Channels :
              (context[tbl][ch] # NULL /\ context'[tbl][ch] = NULL) =>
                  /\ stream[context[tbl][ch]].context
                  /\ ~stream'[context[tbl][ch]].context
      ]_vars

\* an upload stream unlinked while a record stream held the same channel number
C18_Witness ==
    /\ last.op \in {"disconnect_reply", "killed"}
    /\ last.s \in Streams
    /\ last.pre.direction = PA_STREAM_UPLOAD
    /\ last.pre.state = PA_STREAM_READY
    /\ stream[last.s].state \in Terminal
    /\ \E o \in Streams :
           /\ stream[o].direction = PA_STREAM_RECORD
           /\ stream[o].state = PA_STREAM_READY
           /\ stream[o].channel_valid


(***************************************************************************)
(* The read specification: one record stream; recorded data arrives while  *)
(* the application peeks, drops and asks for the readable size, between    *)
(* latency queries and their replies                                       *)
(***************************************************************************)
\* the number of commands the application sends
ReadMaxTag == 2

\* the number of memory blocks the server sends
ReadMaxBlocks == 3

ReadCfg ==
    [OpsCfg EXCEPT !.maxtag = ReadMaxTag,
                   !.directions = {PA_STREAM_RECORD},
                   !.flagsets = {{}},
                   !.lengths = {1, 3},
                   !.maxblocks = ReadMaxBlocks,
                   !.timings = {NoTiming, LaterTiming},
                   !.history = TRUE]

InitRead == InitWith(ReadCfg, 13, FALSE)

NextRead ==
    \/ ConnectRecord
    \/ CreateReplyOk
    \/ Peek
    \/ Drop
    \/ ReadableSize
    \/ MemblockArrives
    \/ UpdateTimingInfo
    \/ TimingReply
    \/ TimingReplyError

SpecRead == InitRead /\ [][NextRead]_vars


\* a peek() on ready record stream s in the step
PeekOn(s) ==
    /\ last'.op = "peek"
    /\ last'.s = s
    /\ stream[s].state = PA_STREAM_READY
    /\ stream[s].direction = PA_STREAM_RECORD

\* what every peek() does: it succeeds, leaves the queue alone, and on an
\* empty queue with no chunk held it returns (null, 0) and holds no chunk
PeekBasics(s) ==
    /\ last'.ret = PA_OK
    /\ stream'[s].record_memblockq = stream[s].record_memblockq
    /\ pa_memblockq_get_length(stream'[s].record_memblockq) =
           pa_memblockq_get_length(stream[s].record_memblockq)
    /\ (stream[s].record_memblockq = <<>> /\ app.peeked[s] \in {-1, 0}) =>
           /\ last'.value = 0
           /\ stream'[s].peek_memchunk = NULL

\* C19 as stated: on a ready record stream, any number of consecutive peek()
\* calls with no intervening drop() return the same (data, length), even if
\* new data is queued in between, and none of them changes readable_size;
\* peek() on an empty queue returns (null, 0) with success and holds no chunk.
C19_PeekSame ==
    [][\A s \in Streams :
          PeekOn(s) =>
              /\ PeekBasics(s)
              /\ app.peeked[s] # -1 => last'.value = app.peeked[s]
      ]_vars

\* C19 amended: on a ready record stream, once a peek() has returned a chunk
\* (length > 0), every further peek() with no intervening drop() returns the
\* same (data, length), even if new data is queued in between; no peek()
\* changes readable_size; peek() on an empty queue returns (null, 0) with
\* success and holds no chunk, so that the first peek() after data has
\* arrived returns that data.
C19_PeekIdempotent ==
    [][\A s \in Streams :
          PeekOn(s) =>
              /\ PeekBasics(s)
              /\ app.peeked[s] > 0 => last'.value = app.peeked[s]
              /\ (app.peeked[s] = 0 /\ stream[s].record_memblockq # <<>>) =>
                     last'.value = Head(stream[s].record_memblockq)
      ]_vars

\* a second peek returned the chunk of the first although a chunk of another
\* length had been queued since
C19_Witness ==
    /\ last.op = "peek"
    /\ last.ret = PA_OK
    /\ last.s \in Streams
    /\ last.value = 1
    /\ app.peeked[last.s] = 1
    /\ stream[last.s].record_memblockq = <<1, 3>>
    /\ server.blocks = 2
    /\ stream[last.s].peek_memchunk = 1


\* a drop() on ready record stream s in the step
DropOn(s) ==
    /\ last'.op = "drop"
    /\ last'.s = s
    /\ stream[s].state = PA_STREAM_READY
    /\ stream[s].direction = PA_STREAM_RECORD

\* what a peek() called right after the step would return
NextPeek(s) == pa_stream_peek(World, s).value'

\* C20: drop() on a ready record stream with no chunk currently peeked fails
\* with bad-state and changes nothing; with a peeked chunk of length L it
\* removes exactly L bytes from the local queue (readable_size decreases by
\* L), adds L to the snapshot's read_index iff the timing snapshot is valid
\* and read_index is not corrupt, and clears the peek cursor so that the next
\* peek() returns the following chunk.
C20_Drop ==
    [][\A s \in Streams :
          DropOn(s) =>
              LET L == stream[s].peek_memchunk
                  q == stream[s].record_memblockq
                  i == stream[s].timing_info
              IN IF L = NULL
                 THEN /\ last'.ret = PA_ERR_BADSTATE
                      /\ stream' = stream
                      /\ operations' = operations
                      /\ SendsNothing
                      /\ last'.fired = <<>>
                 ELSE /\ last'.ret = PA_OK
                      /\ pa_memblockq_get_length(stream'[s].record_memblockq) =
                             pa_memblockq_get_length(q) - L
                      /\ stream'[s].record_memblockq = Tail(q)
                      /\ stream'[s].timing_info.read_index =
                             IF stream[s].timing_info_valid /\ ~i.read_index_corrupt
                             THEN i.read_index + L ELSE i.read_index
                      /\ stream'[s].peek_memchunk = NULL
                      /\ NextPeek(s) = IF Len(q) > 1 THEN q[2] ELSE 0
                      /\ \A x \in Streams \ {s} : stream'[x] = stream[x]
      ]_vars

\* a drop of a peeked chunk of length 3 advanced a valid snapshot's read index
\* and left the following chunk at the head of the queue
C20_Witness ==
    /\ last.op = "drop"
    /\ last.ret = PA_OK
    /\ last.s \in Streams
    /\ stream[last.s].timing_info_valid
    /\ ~stream[last.s].timing_info.read_index_corrupt
    /\ stream[last.s].timing_info.read_index >= 3
    /\ stream[last.s].record_memblockq = <<1>>
    /\ stream[last.s].peek_memchunk = NULL
    /\ server.blocks = 2


(***************************************************************************)
(* The write specification: a playback or upload stream written to with    *)
(* and without a free_cb, over a transport with and without shared memory  *)
(***************************************************************************)
\* the number of commands the application sends
WriteMaxTag == 1

\* the number of writes the application issues
WriteMaxWrites == 2

WriteCfg ==
    [OpsCfg EXCEPT !.maxtag = WriteMaxTag,
                   !.directions = {PA_STREAM_PLAYBACK, PA_STREAM_UPLOAD},
                   !.flagsets = {{}},
                   !.credits = {2},
                   !.lengths = {0, 1, 4, 5, 9},
                   !.free_cbs = {FALSE, TRUE},
                   !.offsets = {0, 2},
                   !.seeks = {PA_SEEK_RELATIVE, PA_SEEK_ABSOLUTE},
                   !.maxwrites = WriteMaxWrites]

InitWrite == \E shm \in BOOLEAN : InitWith(WriteCfg, 13, shm)

NextWrite ==
    \/ ConnectPlayback
    \/ ConnectUpload
    \/ CreateReplyOk
    \/ Write

SpecWrite == InitWrite /\ [][NextWrite]_vars

\* an accepted write of length > 0 on stream s in the step
AcceptedWrite(s) ==
    /\ last'.op = "write"
    /\ last'.s = s
    /\ last'.ret = PA_OK
    /\ last'.arg.length > 0

\* ceil(len / max)
CeilDiv(len, max) == (len + max - 1) \div max

\* the payloads are the caller's len bytes in order: each starts where the one
\* before it ended and together they are len bytes long
InOrder(payloads, len) ==
    /\ \A k \in DOMAIN payloads :
          payloads[k].data = SeqSum([j \in 1 .. (k - 1) |-> payloads[j].length])
    /\ SeqSum([j \in DOMAIN payloads |-> payloads[j].length]) = len

\* the first payload carries the caller's offset and seek mode, every later
\* one relative / 0
SeeksOnce(payloads, offset, seek) ==
    \A k \in DOMAIN payloads :
        /\ payloads[k].offset = IF k = 1 THEN offset ELSE 0
        /\ payloads[k].seek = IF k = 1 THEN seek ELSE PA_SEEK_RELATIVE

\* the write was cut into ceil(len / max_block_size) payloads, none longer
\* than max_block_size
Chunked(payloads, len, max) ==
    /\ Len(payloads) = CeilDiv(len, max)
    /\ \A k \in DOMAIN payloads : payloads[k].length <= max

NoDataMaxTag == 3

\* the number of writes the application issues
NoDataMaxWrites == 1

NoDataCfg ==
    [OpsCfg EXCEPT !.maxtag = NoDataMaxTag,
                   !.directions = {PA_STREAM_PLAYBACK, PA_STREAM_RECORD},
                   !.flagsets = {{}},
                   !.credits = {2},
                   !.lengths = {1},
                   !.seeks = {PA_SEEK_RELATIVE, PA_SEEK_RELATIVE_ON_READ},
                   !.maxwrites = NoDataMaxWrites,
                   !.timings = {LaterTiming}]

InitNoData == InitWith(NoDataCfg, 13, FALSE)

NextNoData ==
    \/ ConnectPlayback
    \/ ConnectRecord
    \/ CreateReplyOk
    \/ Write
    \/ Cork
    \/ Flush
    \/ UpdateTimingInfo
    \/ GetTime
    \/ GetLatency
    \/ SimpleAckReply
    \/ TimingReply
    \/ TimingReplyError

SpecNoData == InitNoData /\ [][NextNoData]_vars

\* the index pa_stream_get_time depends on is corrupt
TimeIndexCorrupt(st) ==
    \/ st.direction = PA_STREAM_PLAYBACK /\ st.timing_info.read_index_corrupt
    \/ st.direction = PA_STREAM_RECORD /\ st.timing_info.write_index_corrupt

\* the other index is corrupt
OtherIndexCorrupt(st) ==
    \/ st.direction = PA_STREAM_PLAYBACK /\ st.timing_info.write_index_corrupt
    \/ st.direction = PA_STREAM_RECORD /\ st.timing_info.read_index_corrupt

\* the call of the step failed with no-data and left every stream as it was
FailsWithNoData ==
    /\ last'.ret = PA_ERR_NODATA
    /\ stream' = stream
    /\ last'.fired = <<>>

\* C22: get_time() on a ready playback or record stream fails with no-data,
\* without changing previous_time, whenever there is no valid timing snapshot
\* or the index it depends on is corrupt (read_index for playback, write_index
\* for record); get_latency() additionally fails with no-data when the other
\* index is corrupt.  After an error reply to a latency query the previously
\* valid snapshot is discarded, and both calls fail with no-data until the next
\* successful latency reply: nothing else makes the snapshot valid.
C22_NoData ==
    [][\A s \in Streams :
          (/\ last'.s = s
           /\ stream[s].state = PA_STREAM_READY
           /\ stream[s].direction \in {PA_STREAM_PLAYBACK, PA_STREAM_RECORD}) =>
             /\ (/\ last'.op = "get_time"
                 /\ ~stream[s].timing_info_valid \/ TimeIndexCorrupt(stream[s])) =>
                    FailsWithNoData
             /\ (/\ last'.op = "get_latency"
                 /\ \/ ~stream[s].timing_info_valid
                    \/ TimeIndexCorrupt(stream[s])
                    \/ OtherIndexCorrupt(stream[s])) =>
                    FailsWithNoData
             /\ (last'.op = "timing_reply" /\ last'.arg.command = PA_COMMAND_ERROR) =>
                    ~stream'[s].timing_info_valid
             /\ (~stream[s].timing_info_valid /\ stream'[s].timing_info_valid) =>
                    (last'.op = "timing_reply" /\ last'.arg.command = PA_COMMAND_REPLY)
      ]_vars

\* the latency was refused after an error reply had discarded a snapshot that
\* had been valid
C22_Witness ==
    /\ last.op = "get_latency"
    /\ last.ret = PA_ERR_NODATA
    /\ last.s \in Streams
    /\ stream[last.s].state = PA_STREAM_READY
    /\ ~stream[last.s].timing_info_valid
    /\ stream[last.s].timing_info.read_index = LaterTiming.read_index
    /\ context.ctag = 3
    /\ server.latency = <<>>


\* C23: flush() on a ready record stream invalidates the read index:
\* read_index_not_before becomes the context's current tag counter and a valid
\* snapshot gets read_index_corrupt = true, while write_index_not_before and
\* write_index_corrupt are left unchanged.
C23_RecordFlush ==
    [][\A s \in Streams :
          (/\ last'.op = "flush"
           /\ last'.s = s
           /\ stream[s].state = PA_STREAM_READY
           /\ stream[s].direction = PA_STREAM_RECORD) =>
             /\ stream'[s].read_index_not_before = context'.ctag
             /\ stream[s].timing_info_valid => stream'[s].timing_info.read_index_corrupt
             /\ stream'[s].write_index_not_before = stream[s].write_index_not_before
             /\ stream'[s].timing_info.write_index_corrupt =
                    stream[s].timing_info.write_index_corrupt
      ]_vars

\* a ready record stream with a valid snapshot was flushed
C23_Witness ==
    /\ last.op = "flush"
    /\ last.ret = PA_OK
    /\ last.pre.state = PA_STREAM_READY
    /\ last.pre.direction = PA_STREAM_RECORD
    /\ stream[last.s].timing_info_valid
    /\ stream[last.s].write_index_not_before = context.ctag


\* the calls of free_cb made by the step itself
FreeCbCalls == {k \in DOMAIN last'.fired : last'.fired[k].cb = "free_cb"}

SampleRateAnswer(s, command) ==
    /\ last'.op = "sample_rate_reply"
    /\ last'.arg.command = command
    /\ last'.s = s
    /\ operations[last'.arg.tag].context
    /\ stream[s].state = PA_STREAM_READY

\* C25: update_sample_rate: the stream's local sample rate changes to the
\* requested rate only when the server acknowledges the request; when the
\* server answers with an error, the local sample rate keeps its previous
\* value and the operation callback is invoked with success = 0.
C25_SampleRate ==
    [][\A s \in Streams :
          /\ SampleRateAnswer(s, PA_COMMAND_REPLY) =>
                /\ stream'[s].sample_spec.rate = operations[last'.arg.tag].private
                /\ Len(last'.fired) = 1
                /\ last'.fired[1].cb = "operation"
                /\ last'.fired[1].arg = 1
          /\ SampleRateAnswer(s, PA_COMMAND_ERROR) =>
                /\ stream'[s].sample_spec.rate = stream[s].sample_spec.rate
                /\ Len(last'.fired) = 1
                /\ last'.fired[1].cb = "operation"
                /\ last'.fired[1].arg = 0
          /\ stream'[s].sample_spec.rate # stream[s].sample_spec.rate =>
                SampleRateAnswer(s, PA_COMMAND_REPLY)
      ]_vars

\* the server refused a new sample rate and the callback was told so
C25_Witness ==
    /\ last.op = "sample_rate_reply"
    /\ last.arg.command = PA_COMMAND_ERROR
    /\ last.s \in Streams
    /\ stream[last.s].state = PA_STREAM_READY
    /\ Len(last.fired) = 1
    /\ last.fired[1].cb = "operation"
    /\ last.fired[1].arg = 0
    /\ context.error = PA_ERR_SERVER


\* the server's error answer, in the step, to a control operation of ready
\* stream s that was given a callback
ControlError(s) ==
    /\ last'.op \in {"simple_ack_reply", "buffer_attr_reply"}
    /\ last'.arg.command = PA_COMMAND_ERROR
    /\ last'.s = s
    /\ operations[last'.arg.tag].context
    /\ operations[last'.arg.tag].callback
    /\ stream[s].state = PA_STREAM_READY

\* C26: an error reply from the server to a control operation (cork, flush,
\* drain, prebuf, trigger, set_name, proplist update/remove, set_buffer_attr)
\* invokes that operation's callback exactly once with success = 0 and leaves
\* the stream in state ready and linked; only create, disconnect and KILLED
\* can make a stream terminal.
C26_ControlError ==
    [][\A s \in Streams :
          /\ ControlError(s) =>
                /\ last'.fired = <<[cb |-> "operation", s |-> s, arg |-> 0,
                                    userdata |-> last'.arg.tag]>>
                /\ stream'[s].state = PA_STREAM_READY
                /\ stream'[s].context
                /\ s \in context'.streams
                /\ stream'[s].channel_valid
                /\ context'.playback_streams = context.playback_streams
                /\ context'.record_streams = context.record_streams
                /\ stream' = stream
          /\ (stream[s].state \notin Terminal /\ stream'[s].state \in Terminal) =>
                last'.op \in {"create_reply", "disconnect_reply", "killed"}
      ]_vars

\* the server refused a drain and the stream went on
C26_Witness ==
    /\ last.op = "simple_ack_reply"
    /\ last.arg.command = PA_COMMAND_ERROR
    /\ last.arg.kind = "drain"
    /\ last.s \in Streams
    /\ stream[last.s].state = PA_STREAM_READY
    /\ Len(last.fired) = 1
    /\ last.fired[1].arg = 0


\* the smoother of stream s is paused while the stream is corked or suspended
PausedWhileStopped(s) ==
    (stream[s].smoother # "none" /\ (stream[s].corked \/ stream[s].suspended)) =>
        stream[s].smoother = "paused"

\* C27: for a stream created with INTERPOLATE_TIMING, in every reachable
\* state in which the stream is corked or suspended the smoother is paused,
\* also when a latency reply for a query issued before the cork or the
\* suspension (reporting playing = true) is processed afterwards; the smoother
\* is resumed only when the stream is neither corked nor suspended.
C27_SmootherPaused ==
    /\ [](\A s \in Streams : PausedWhileStopped(s))
    /\ [][\A s \in Streams :
             (stream[s].smoother = "paused" /\ stream'[s].smoother = "running") =>
                 (~stream'[s].corked /\ ~stream'[s].suspended)
         ]_vars

\* a latency reply reporting playing = true was processed for a suspended
\* stream that has a smoother
C27_Witness ==
    /\ last.op = "timing_reply"
    /\ last.arg.command = PA_COMMAND_REPLY
    /\ last.s \in Streams
    /\ stream[last.s].suspended
    /\ stream[last.s].timing_info.playing
    /\ "INTERPOLATE_TIMING" \in stream[last.s].flags
    /\ stream[last.s].smoother # "none"


(***************************************************************************)
(* The auto-timing specification: a stream with or without                 *)
(* AUTO_TIMING_UPDATE whose timer fires between writes, corks, the         *)
(* application's own latency queries and the server's answers              *)
(***************************************************************************)
\* the number of commands the application and the timer send
AutoMaxTag == 4

\* the number of writes the application issues
AutoMaxWrites == 1

AutoCfg ==
    [OpsCfg EXCEPT !.maxtag = AutoMaxTag,
                   !.directions = {PA_STREAM_PLAYBACK, PA_STREAM_RECORD},
                   !.flagsets = {{}, {"AUTO_TIMING_UPDATE"}},
                   !.credits = {2},
                   !.lengths = {1},
                   !.maxwrites = AutoMaxWrites]

InitAuto == InitWith(AutoCfg, 13, FALSE)

NextAuto ==
    \/ ConnectPlayback
    \/ ConnectRecord
    \/ CreateReplyOk
    \/ Write
    \/ Cork
    \/ UpdateTimingInfo
    \/ SimpleAckReply
    \/ TimingReply
    \/ TimingReplyError
    \/ TimerFires
    \/ Killed

SpecAuto == InitAuto /\ [][NextAuto]_vars

\* the latency queries of stream s that were issued automatically (they have
\* no completion callback) and still await their reply
AutoQueries(s) ==
    {t \in DOMAIN operations :
        /\ operations[t].kind = "update_timing_info"
        /\ ~operations[t].callback
        /\ operations[t].target = s
        /\ t \in DOMAIN pdispatch}

\* C28: on a stream without AUTO_TIMING_UPDATE no latency query is ever
\* issued automatically; with the flag, when the auto-timing timer fires a new
\* latency query is issued only if the stream is ready and no automatically
\* requested latency query is still awaiting its reply (force = false skips
\* while one is outstanding), and the single-shot timer is re-armed each time.
C28_AutoTiming ==
    [][\A s \in Streams :
          /\ "AUTO_TIMING_UPDATE" \notin stream[s].flags =>
                /\ AutoQueries(s)' \subseteq AutoQueries(s)
                /\ context'.time_events[s] = "none"
          /\ (last'.op = "timer" /\ last'.s = s) =>
                /\ "AUTO_TIMING_UPDATE" \in stream[s].flags
                /\ context'.time_events[s] = "armed"
                /\ ~(AutoQueries(s)' \subseteq AutoQueries(s)) =>
                      /\ stream[s].state = PA_STREAM_READY
                      /\ AutoQueries(s) = {}
      ]_vars

\* the timer fired while an automatic query was outstanding and sent none
C28_Witness ==
    /\ last.op = "timer"
    /\ last.s \in Streams
    /\ context.ctag = last.pre.ctag
    /\ AutoQueries(last.s) # {}
    /\ context.time_events[last.s] = "armed"


\* C29: for a record stream whose timing snapshot is valid and whose
\* read_index is not corrupt, after any sequence of incoming data, peek() and
\* drop() calls following a successful latency reply, timing_info.read_index
\* equals the server-reported read_index of that reply minus the local queue
\* length at the moment the reply was processed plus the total number of
\* bytes dropped since then.
C29_ReadIndexTracking ==
    \A s \in Streams :
        (/\ stream[s].state = PA_STREAM_READY
         /\ stream[s].direction = PA_STREAM_RECORD
         /\ stream[s].timing_info_valid
         /\ ~stream[s].timing_info.read_index_corrupt) =>
            stream[s].timing_info.read_index =
                app.read[s].reported - app.read[s].queued + app.read[s].dropped

\* a reply came while four bytes were queued, three of them were dropped
\* afterwards and more data arrived
C29_Witness ==
    \E s \in Streams :
        /\ stream[s].state = PA_STREAM_READY
        /\ stream[s].direction = PA_STREAM_RECORD
        /\ stream[s].timing_info_valid
        /\ app.read[s] = [reported |-> LaterTiming.read_index, queued |-> 4, dropped |-> 3]
        /\ stream[s].timing_info.read_index = LaterTiming.read_index - 1
        /\ Len(stream[s].record_memblockq) = 2
        /\ last.op = "peek"


(***************************************************************************)
(* The legacy specification: a stream connected to a server of protocol    *)
(* version 12 or 13 with buffer attributes the caller set or left at 0     *)
(***************************************************************************)
\* the number of commands the application sends
LegacyMaxTag == 1

\* the buffer attributes a caller passes: every field set or left at 0
CallerAttrs ==
    {<<[maxlength |-> ml, tlength |-> tl, prebuf |-> pb, minreq |-> mr, fragsize |-> fs]>> :
        ml \in {0, 64}, tl \in {0, 20}, pb \in {0, 4}, mr \in {0, 2}, fs \in {0, 8}}

LegacyCfg ==
    [OpsCfg EXCEPT !.maxtag = LegacyMaxTag,
                   !.directions = {PA_STREAM_PLAYBACK, PA_STREAM_RECORD},
                   !.attrs = CallerAttrs,
                   !.flagsets = {{}},
                   !.credits = {2}]

InitLegacy == \E version \in {12, 13} : InitWith(LegacyCfg, version, FALSE)

NextLegacy ==
    \/ ConnectPlayback
    \/ ConnectRecord
    \/ CreateReplyOk

SpecLegacy == InitLegacy /\ [][NextLegacy]_vars

\* the value sent for a field: the caller's unless the caller left it at 0
OrDefault(value, default) == IF value = 0 THEN default ELSE value

\* the attributes the create command of a legacy connection is to carry
LegacyDefaults(attr, ss) ==
    LET tlength == OrDefault(attr.tlength, pa_usec_to_bytes(250 * PA_USEC_PER_MSEC, ss))
    IN [maxlength |-> OrDefault(attr.maxlength, 4 * 1024 * 1024),
        tlength |-> tlength,
        minreq |-> OrDefault(attr.minreq, tlength \div 5),
        prebuf |-> OrDefault(attr.prebuf, tlength),
        fragsize |-> OrDefault(attr.fragsize, tlength)]

\* C30: when connecting to a server with protocol version < 13, each buffer
\* attribute the caller left unset (0) is replaced before the create command
\* is sent by its default (maxlength = 4 MiB, tlength = 250 ms of samples,
\* minreq = tlength/5, prebuf = tlength, fragsize = tlength) and each non-zero
\* attribute supplied by the caller is sent unchanged; for version >= 13 the
\* caller's attributes are sent unmodified.
C30_LegacyDefaults ==
    [][\A s \in Streams :
          (/\ last'.op \in {"connect_playback", "connect_record"}
           /\ last'.s = s
           /\ last'.ret = PA_OK
           /\ last'.arg.attr # <<>>) =>
             stream'[s].buffer_attr =
                 IF context.version < 13
                 THEN LegacyDefaults(last'.arg.attr[1], stream[s].sample_spec)
                 ELSE last'.arg.attr[1]
      ]_vars

\* a legacy connect whose caller set maxlength and left tlength at 0
C30_Witness ==
    /\ last.op = "connect_playback"
    /\ last.ret = PA_OK
    /\ context.version = 12
    /\ last.arg.attr # <<>>
    /\ last.arg.attr[1].maxlength = 64
    /\ last.arg.attr[1].tlength = 0
    /\ stream[last.s].state = PA_STREAM_CREATING


(***************************************************************************)
(* The event specification: one stream with automatic timing updates whose *)
(* application installs its callbacks at any moment, and a server that     *)
(* sends its events for any channel at any moment of the stream's life     *)
(***************************************************************************)
\* the number of commands the application sends
EventMaxTag == 3

EventCfg ==
    [OpsCfg EXCEPT !.maxtag = EventMaxTag,
                   !.flagsets = {{"AUTO_TIMING_UPDATE"}},
                   !.callbacks = {"write", "suspended", "started"},
                   !.credits = {2},
                   !.stray = TRUE]

InitEvent ==
    \E f \in BOOLEAN : InitWith([EventCfg EXCEPT !.freed_reads_ready = f], 13, FALSE)

NextEvent ==
    \/ ConnectPlayback
    \/ ConnectRecord
    \/ ConnectUpload
    \/ CreateReplyOk
    \/ Disconnect
    \/ DisconnectReply
    \/ Killed
    \/ SetCallback
    \/ Moved
    \/ Suspended
    \/ Started
    \/ Request
    \/ OverflowOrUnderflow
    \/ Unref

SpecEvent == InitEvent /\ [][NextEvent]_vars

\* a STARTED event is delivered to the ready playback stream s, which has a
\* started callback
StartedOn(s) ==
    /\ last'.op = "started"
    /\ last'.s = s
    /\ stream[s].state = PA_STREAM_READY
    /\ stream[s].direction = PA_STREAM_PLAYBACK
    /\ stream[s].callback["started"]

\* C31: when a STARTED event arrives for a ready playback stream (version >=
\* 13), the started callback is invoked with the userdata that was registered
\* together with it via set_started_callback, independently of what userdata
\* was registered for the suspended callback.
C31_StartedUserdata ==
    [][\A s \in Streams :
          StartedOn(s) =>
              /\ context.version >= 13
              /\ \E k \in DOMAIN last'.fired :
                    /\ last'.fired[k].cb = "started"
                    /\ last'.fired[k].s = s
                    /\ last'.fired[k].userdata = stream[s].userdata["started"]
              /\ \A k \in DOMAIN last'.fired :
                    last'.fired[k].cb = "started" =>
                        last'.fired[k].userdata = stream[s].userdata["started"]
      ]_vars

\* a STARTED event has reached a ready playback stream whose application
\* registered a started and a suspended callback
C31_Witness ==
    /\ last.op = "started"
    /\ last.s \in Streams
    /\ last.pre.state = PA_STREAM_READY
    /\ last.pre.direction = PA_STREAM_PLAYBACK
    /\ stream[last.s].callback["started"]
    /\ stream[last.s].callback["suspended"]
    /\ \E k \in DOMAIN last.fired : last.fired[k].cb = "started"


(***************************************************************************)
(* The reference specification: one stream whose application releases its  *)
(* reference at any moment, or from inside its state callback once the     *)
(* stream has failed or terminated                                         *)
(***************************************************************************)
\* the number of commands the application sends
RefMaxTag == 2

RefCfg ==
    [OpsCfg EXCEPT !.maxtag = RefMaxTag,
                   !.flagsets = {{}},
                   !.callbacks = {"state"},
                   !.credits = {2}]

InitRef ==
    \E u \in BOOLEAN : InitWith([RefCfg EXCEPT !.unref_in_callback = u], 13, FALSE)

NextRef ==
    \/ ConnectPlayback
    \/ ConnectRecord
    \/ ConnectUpload
    \/ CreateReplyOk
    \/ CreateReplyError
    \/ Disconnect
    \/ DisconnectReply
    \/ Killed
    \/ SetCallback
    \/ Unref

SpecRef == InitRef /\ [][NextRef]_vars

\* the references held on s between two steps: the application's and the
\* context's list's
References(s) ==
    (IF stream[s].app_ref THEN 1 ELSE 0) + (IF stream[s].context THEN 1 ELSE 0)

\* s is linked into its context exactly as long as the list's reference is
\* held, it is freed exactly when no reference is left, and stream_free was
\* never entered for a linked stream
ReferencesKept(s) ==
    /\ stream[s].context <=> s \in context.streams
    /\ stream[s].refcnt = References(s)
    /\ stream[s].freed <=> stream[s].refcnt = 0
    /\ stream[s].context => ~stream[s].freed
    /\ ~stream[s].freed_linked

\* the step moved s into failed or terminated
BecomesTerminal(s) ==
    /\ stream[s].state \notin Terminal
    /\ stream'[s].state \in Terminal

\* C32: a stream object is never freed while it is still linked into its
\* context (the context's list reference is released only by unlink), and a
\* transition into failed or terminated never frees the stream while
\* pa_stream_set_state is still executing - even if the state callback drops
\* the application's last reference - because the transition holds its own
\* reference until after the unlink.
C32_References ==
    /\ [](\A s \in Streams : ReferencesKept(s))
    /\ [][\A s \in Streams :
             /\ (stream[s].context /\ ~stream'[s].context) => BecomesTerminal(s)
             /\ BecomesTerminal(s) =>
                   /\ Unlinked(s)'
                   /\ ~stream'[s].freed_linked
                   /\ stream'[s].freed <=> ~stream'[s].app_ref
       ]_vars

\* a transition into failed or terminated whose state callback released the
\* application's last reference: the stream is unlinked and freed
C32_Witness ==
    /\ last.op \in {"create_reply", "disconnect_reply", "killed"}
    /\ last.s \in Streams
    /\ last.pre.state \notin Terminal
    /\ stream[last.s].state \in Terminal
    /\ \E k \in DOMAIN last.fired : last.fired[k].cb = "state"
    /\ cfg.unref_in_callback
    /\ ~stream[last.s].app_ref
    /\ stream[last.s].freed


\* the indices the for loop over the saved corrections reads, in order
RECURSIVE RingIndices(_, _)
RingIndices(n, j) ==
    IF ~(n < PA_MAX_WRITE_INDEX_CORRECTIONS) THEN <<>>
    ELSE <<j>> \o RingIndices(n + 1, (j + 1) % PA_MAX_WRITE_INDEX_CORRECTIONS)

\* the indices read while the reply of the step is processed for stream s
IndicesReadFor(s) ==
    RingIndices(0, RingWalkStart(stream[s].current_write_index_correction))

\* C33: while processing any latency reply on a playback stream, every
\* correction-ring index that is read lies in 0..N-1 and each of the N slots
\* is examined exactly once, for every reachable value of
\* current_write_index_correction (including N-1).
C33_RingInBounds ==
    [][\A s \in Streams :
          LatencyReplyFor(s) =>
              /\ \A k \in DOMAIN IndicesReadFor(s) : IndicesReadFor(s)[k] \in Ring
              /\ \A slot \in Ring :
                    Cardinality({k \in DOMAIN IndicesReadFor(s) :
                                    IndicesReadFor(s)[k] = slot}) = 1
      ]_vars

\* a successful reply was processed while the newest query sat in slot N-1
C33_Witness ==
    /\ last.op = "timing_reply"
    /\ last.arg.command = PA_COMMAND_REPLY
    /\ last.s \in Streams
    /\ stream[last.s].direction = PA_STREAM_PLAYBACK
    /\ stream[last.s].current_write_index_correction = PA_MAX_WRITE_INDEX_CORRECTIONS - 1
    /\ last.arg.oob = BehindTheRing


\* the latency queries of stream s that still await their reply
AwaitedQueries(s) ==
    {t \in Pending("stream_get_timing_info_callback") : operations[t].stream = s}

\* C34: on a ready playback stream, if every latency query issued so far has
\* received a reply (successful or a server error), then no ring slot is
\* valid and the next pa_stream_update_timing_info succeeds rather than
\* failing with the internal error; the stream can never get permanently
\* stuck unable to issue latency queries.
C34_NoLeakedSlots ==
    \A s \in Streams :
        (/\ stream[s].state = PA_STREAM_READY
         /\ stream[s].direction = PA_STREAM_PLAYBACK
         /\ AwaitedQueries(s) = {}) =>
            /\ \A slot \in Ring : ~stream[s].write_index_corrections[slot].valid
            /\ pa_stream_update_timing_info(World, s, FALSE).ret = PA_OK

\* the server has answered the only outstanding query of a ready playback
\* stream with an error
C34_Witness ==
    /\ last.op = "timing_reply"
    /\ last.arg.command = PA_COMMAND_ERROR
    /\ last.s \in Streams
    /\ stream[last.s].state = PA_STREAM_READY
    /\ stream[last.s].direction = PA_STREAM_PLAYBACK
    /\ AwaitedQueries(last.s) = {}


\* the operations that invalidate the read index of a playback stream
BarrierOps == {"cork", "flush", "prebuf", "trigger"}

\* what pa_stream_get_time would answer now
GetTimeAnswer(s) == pa_stream_get_time(World, s, 0).ret

\* the application did one of these operations after issuing the query
\* answered in the step
BarrierSince(s) ==
    \E k \in DOMAIN Since(s) : Since(s)[k].op \in BarrierOps

\* C35: after cork(), prebuf(), trigger(), or flush() with prebuf > 0 on a
\* ready playback stream, get_time() fails with no-data until the reply to a
\* latency query issued after that operation has been processed; replies to
\* queries issued before the operation never make get_time() succeed again.
C35_ReadBarrier ==
    [][\A s \in Streams :
          /\ (/\ last'.op \in BarrierOps
              /\ last'.s = s
              /\ last'.ret = PA_OK
              /\ stream[s].direction = PA_STREAM_PLAYBACK
              /\ stream[s].buffer_attr.prebuf > 0) =>
                 GetTimeAnswer(s)' = PA_ERR_NODATA
          /\ (LatencyReplyFor(s) /\ BarrierSince(s)) =>
                 GetTimeAnswer(s)' = PA_ERR_NODATA
          /\ (/\ stream[s].direction = PA_STREAM_PLAYBACK
              /\ stream[s].state = PA_STREAM_READY
              /\ GetTimeAnswer(s) = PA_ERR_NODATA
              /\ last'.op # "timing_reply") =>
                 GetTimeAnswer(s)' = PA_ERR_NODATA
      ]_vars

\* the reply to a query older than a cork, flush, prebuf or trigger arrived
\* at a playback stream that had a usable snapshot before the operation
C35_Witness ==
    /\ last.op = "timing_reply"
    /\ last.arg.command = PA_COMMAND_REPLY
    /\ last.s \in Streams
    /\ stream[last.s].direction = PA_STREAM_PLAYBACK
    /\ last.arg.tag < stream[last.s].read_index_not_before
    /\ stream[last.s].timing_info_valid
    /\ stream[last.s].timing_info.read_index_corrupt
    /\ GetTimeAnswer(last.s) = PA_ERR_NODATA


\* the flag of s is set only while a latency query of s awaits its reply
RequestedOnlyWhileAwaited(s) ==
    stream[s].auto_timing_update_requested => AwaitedQueries(s) # {}

\* the timer fired for the ready stream s with no query outstanding, and the
\* request it makes was not skipped
TimerNotSuppressed(s) ==
    (/\ last'.op = "timer"
     /\ last'.s = s
     /\ stream[s].state = PA_STREAM_READY
     /\ AwaitedQueries(s) = {}) =>
        \/ AwaitedQueries(s)' # {}
        \/ pa_stream_update_timing_info(World, s, FALSE).ret # PA_OK

EventOps == {"moved", "suspended", "started", "request", "overflow_or_underflow"}

\* the channel table the event of the step is looked up in
EventTable ==
    IF /\ last'.op \in {"moved", "suspended"}
       /\ last'.arg.command \in {"RECORD_STREAM_MOVED", "RECORD_STREAM_SUSPENDED"}
    THEN "record_streams" ELSE "playback_streams"

\* the event of the step names a channel with no registered stream, or one
\* whose stream is not ready
EventMisses ==
    /\ last'.op \in EventOps
    /\ LET s == context[EventTable][last'.arg.channel]
       IN s = NULL \/ stream[s].state # PA_STREAM_READY

\* C37: server events (MOVED, SUSPENDED, STARTED, REQUEST, OVERFLOW,
\* UNDERFLOW) that name a channel with no registered stream, or a stream whose
\* state is not ready, are ignored: they change no stream field (device,
\* suspended, requested_bytes, buffer attrs, smoother state), issue no latency
\* query and invoke no user callback.
C37_EventsIgnored ==
    [][EventMisses =>
          /\ stream' = stream
          /\ context' = context
          /\ operations' = operations
          /\ pdispatch' = pdispatch
          /\ last'.fired = <<>>
          /\ last'.payloads = <<>>
      ]_vars

\* an event has named a channel whose stream had terminated
C37_Witness ==
    /\ last.op \in EventOps
    /\ last.s \in Streams
    /\ last.pre.state \in Terminal


\* the memory blocks of the step that took ownership of the caller's buffer;
\* each of them releases it through free_cb when it is destroyed
OwningBlocks == {k \in DOMAIN last'.payloads : last'.payloads[k].user}

\* C38: for every pa_stream_write call that passes its precondition checks
\* and is given a non-null free_cb - including a call with length 0 - the
\* caller's buffer is released through free_cb exactly once (either by
\* write() itself or by the memory block that took ownership), never zero
\* times and never twice.
C38_BufferReleasedOnce ==
    [][\A s \in Streams :
          (/\ last'.op = "write"
           /\ last'.s = s
           /\ last'.ret = PA_OK
           /\ last'.arg.free_cb) =>
              Cardinality(FreeCbCalls) + Cardinality(OwningBlocks) = 1
      ]_vars

\* a write of no bytes with a free_cb was accepted
C38_Witness ==
    /\ last.op = "write"
    /\ last.ret = PA_OK
    /\ last.arg.free_cb
    /\ last.arg.length = 0
    /\ stream[last.s].state = PA_STREAM_READY


(***************************************************************************)
(* The disconnect specification: two streams of any direction are created, *)
(* disconnected and killed in any order, and a reply to a delete command   *)
(* that is awaited is eventually delivered                                 *)
(***************************************************************************)
\* the number of commands the application sends
DiscMaxTag == 3

DiscCfg == [LifeCfg EXCEPT !.maxtag = DiscMaxTag]

InitDisc == InitWith(DiscCfg, 13, FALSE)

\* the reply to a delete command of stream s is delivered
DisconnectReplyFor(s) ==
    \E tag \in Pending("pa_stream_disconnect_callback"),
       command \in {PA_COMMAND_REPLY, PA_COMMAND_ERROR} :
        /\ pdispatch[tag].userdata.id = s
        /\ Commit(pa_stream_disconnect_callback(pdispatch_run(World, tag), s, command),
                  "disconnect_reply", s, [command |-> command])

NextDisc ==
    \/ ConnectPlayback
    \/ ConnectRecord
    \/ ConnectUpload
    \/ CreateReplyOk
    \/ Disconnect
    \/ DisconnectReply
    \/ Killed

\* delivering a reply takes it off the dispatcher's table
SpecDisc ==
    InitDisc /\ [][NextDisc]_vars /\ \A s \in Streams : WF_pdispatch(DisconnectReplyFor(s))

\* a reply to a delete command of s is awaited
DeleteAwaited(s) ==
    \E t \in Pending("pa_stream_disconnect_callback") : pdispatch[t].userdata.id = s

\* disconnect() is accepted exactly while channel_valid is true; accepted, it
\* registers the reply and leaves the stream as it was; refused, it fails
\* with bad-state and sends nothing
DisconnectCall(s) ==
    (last'.op = "disconnect" /\ last'.s = s) =>
        IF stream[s].channel_valid
        THEN /\ last'.ret = PA_OK
             /\ stream'[s] = stream[s]
             /\ context'.ctag = context.ctag + 1
             /\ DeleteAwaited(s)'
        ELSE /\ last'.ret = PA_ERR_BADSTATE
             /\ SendsNothing
             /\ stream'[s] = stream[s]

\* a KILLED event that names s while the delete reply is awaited fails s and
\* leaves no delete reply to come
KilledBeforeReply(s) ==
    (/\ last'.op = "killed"
     /\ DeleteAwaited(s)
     /\ NamedByKilled(s, last'.arg.command, last'.arg.channel)) =>
        /\ stream'[s].state = PA_STREAM_FAILED
        /\ ~DeleteAwaited(s)'

\* C39: disconnect() is accepted only while channel_valid is true (otherwise
\* bad-state, nothing sent) and does not itself change the stream: the stream
\* stays ready until the reply arrives; if the reply to the delete command is
\* eventually delivered the stream eventually is terminated or failed; a
\* KILLED event that arrives first fails the stream, after which the delete
\* reply causes no further transition.
C39_Disconnect ==
    /\ [][\A s \in Streams : DisconnectCall(s) /\ KilledBeforeReply(s)]_vars
    /\ [](\A s \in Streams :
            DeleteAwaited(s) => stream[s].state = PA_STREAM_READY /\ stream[s].channel_valid)
    /\ [][\A s \in Streams :
            stream[s].state \in Terminal => stream'[s].state = stream[s].state]_vars
    /\ \A s \in Streams : DeleteAwaited(s) ~> (stream[s].state \in Terminal)

\* a KILLED event named a ready stream whose delete reply is awaited, and the
\* stream is still ready
C39_Witness ==
    /\ last.op = "killed"
    /\ \E s \in Streams :
          /\ DeleteAwaited(s)
          /\ NamedByKilled(s, last.arg.command, last.arg.channel)

(***************************************************************************)
(* The assertion specification: playback, record and upload streams with   *)
(* and without a smoother are created, refused, written to, corked,        *)
(* flushed, queried, timed, moved, suspended, disconnected and killed      *)
(***************************************************************************)
\* the number of commands the application sends
AssertMaxTag == 3

AssertCfg ==
    [TimeCfg EXCEPT !.maxtag = AssertMaxTag,
                    !.directions = {PA_STREAM_PLAYBACK, PA_STREAM_RECORD, PA_STREAM_UPLOAD},
                    !.flagsets = {{}, {"INTERPOLATE_TIMING"}},
                    !.corks = {TRUE},
                    !.smoothed = {0}]

InitAssert == InitWith(AssertCfg, 13, FALSE)

NextAssert ==
    \/ ConnectPlayback
    \/ ConnectRecord
    \/ ConnectUpload
    \/ CreateReplyOk
    \/ CreateReplyError
    \/ Write
    \/ Cork
    \/ Flush
    \/ UpdateTimingInfo
    \/ GetTime
    \/ SimpleAckReply
    \/ TimingReply
    \/ TimingReplyError
    \/ Moved
    \/ Suspended
    \/ Disconnect
    \/ DisconnectReply
    \/ Killed

SpecAssert == InitAssert /\ [][NextAssert]_vars

\* C40: the internal assertions hold in every reachable execution: the create
\* reply handler finds the stream in state creating, and every call of
\* calc_time, from get_time and from the processing of a latency reply, finds
\* the stream ready, not an upload stream, with a valid timing snapshot and
\* with the index it reads not corrupt.
C40_AssertionsHold ==
    /\ ~context.assertion_failed
    /\ last.op = "create_reply" => last.pre.state = PA_STREAM_CREATING

\* a latency reply has fed the smoother of a ready stream with calc_time
C40_Witness ==
    /\ last.op = "timing_reply"
    /\ last.arg.command = PA_COMMAND_REPLY
    /\ last.s \in Streams
    /\ stream[last.s].state = PA_STREAM_READY
    /\ stream[last.s].smoother # "none"
    /\ stream[last.s].timing_info_valid
    /\ SmootherPuts(stream[last.s].direction, stream[last.s].timing_info)
    /\ stream[last.s].read_index_not_before > 0
====
